---- MODULE Spec2Model ----
(***************************************************************************)
(* Resolution of a MAXModelConfig (src/src/max/pipelines/max_config.py):   *)
(* resolve(), validate_and_resolve_quantization_encoding_weight_path() and *)
(* validate_and_resolve_with_set_quantization_encoding(), run in that      *)
(* order on one config object against a filesystem, a local download cache *)
(* and a remote registry.                                                  *)
(*                                                                         *)
(* Strings are modelled at the granularity the code inspects them: a       *)
(* string is the sequence of its "/"-separated pieces (str.split("/")), a  *)
(* repository id "org/repo" is the two-piece sequence, "" is <<>>.         *)
(*                                                                         *)
(* The environment (filesystem, cache, registry) is fixed for a whole      *)
(* behaviour but is revealed lazily: `env` holds the answers, `known` the  *)
(* questions already asked.  A handler may pick any answer to a question   *)
(* not yet asked, must reuse the answer to one already asked, and facts    *)
(* nobody asked about stay at their default (absent).                      *)
(***************************************************************************)
EXTENDS Integers, Sequences, FiniteSets, TLC

VARIABLES
    cfg,    \* the MAXModelConfig object, mutated in place
    env,    \* answers of the filesystem, the cache and the registry
    known,  \* the questions already put to env
    args,   \* the arguments the caller passes to the two validate_* stages
    pc,     \* "start" | "resolved" | "encoded" | "done" | "failed"
    err,    \* the exception that ended the resolution, "none" otherwise
    stage,  \* the handler that ran last
    calls,  \* the queries made by the current resolution, in order
    norm,   \* per weight-path entry, what normalization did to it
    warns,  \* warnings logged by the current resolution
    steps,  \* the stages of validate_and_resolve_with_set_quantization_encoding entered
    cfg0,   \* the config as it was when the current resolution started
    run,    \* number of the current resolution of this object
    pre,    \* the config as it was when the handler that ran last was called
    ret,    \* what the handler that ran last returned: <<>> for None, <<n>> for n
    par     \* two config objects resolved side by side, and their KVCacheConfig objects

vars == <<cfg, env, known, args, pc, err, stage, calls, norm, warns, steps, cfg0, run, pre,
          ret, par>>

(***************************************************************************)
(* Bounds of the model.                                                    *)
(***************************************************************************)
MaxPaths == 2   \* longest weight_path list drawn by InitNorm
MaxRuns == 2    \* resolutions of the same object in SpecTwice

(***************************************************************************)
(* Values.                                                                 *)
(***************************************************************************)
NoRepoId == <<>>
RepoA == <<"org", "repo">>
RepoB == <<"org2", "repo2">>
RepoR == <<"replit", "code">>

NoEncoding == "none"
Encodings == {"float32", "bfloat16", "q4_k", "gptq"}
Strategies == {"model_default", "naive", "continuous", "paged"}
Formats == {"gguf", "safetensors", "pytorch"}

Cpu0 == [device_type |-> "cpu", id |-> 0]
Gpu0 == [device_type |-> "gpu", id |-> 0]
Gpu1 == [device_type |-> "gpu", id |-> 1]

\* scan_available_devices(): the machine of the model has one CPU and one GPU.
AvailableDevices == {Cpu0, Gpu0}

StrEntry(s) == [typ |-> "str", val |-> s]
PathEntry(p) == [typ |-> "Path", val |-> p]
OtherEntry == [typ |-> "other", val |-> <<>>]

NoRepo == [id |-> NoRepoId, type |-> "unset"]

(***************************************************************************)
(* pathlib.Path(s) and str(path): a Path drops empty and "." pieces        *)
(* ("a//b", "a/./b"), keeps a leading empty piece (an absolute path), and  *)
(* the empty path is ".".                                                  *)
(***************************************************************************)
RECURSIVE DropEmpty(_)
DropEmpty(s) ==
    IF s = <<>> THEN <<>>
    ELSE IF Head(s) \in {"", "."} THEN DropEmpty(Tail(s))
    ELSE <<Head(s)>> \o DropEmpty(Tail(s))

PathOf(s) ==
    IF Len(s) > 1 /\ s[1] = ""
    THEN <<"">> \o (IF DropEmpty(Tail(s)) = <<>> THEN <<"">> ELSE DropEmpty(Tail(s)))
    ELSE IF DropEmpty(s) = <<>> THEN <<".">> ELSE DropEmpty(s)

\* "/".join(path_pieces[2:])
FileNameOf(pieces) == SubSeq(pieces, 3, Len(pieces))

\* f"{path_pieces[0]}/{path_pieces[1]}"
CandidateRepo(pieces) == <<pieces[1], pieces[2]>>

\* "replit" in model_path.lower()
ReplitPieces == {"replit", "Replit"}
IsReplit(model_path) == \E i \in DOMAIN model_path : model_path[i] \in ReplitPieces

(***************************************************************************)
(* The environment and the log of queries.                                 *)
(***************************************************************************)
EmptyIndex == [x \in Encodings |-> <<>>]

EmptyEnv ==
    [files |-> {}, dirs |-> {}, remoteFiles |-> {}, remoteRepos |-> {},
     cacheHit |-> {}, cacheAbsent |-> {}, encForFile |-> {}, remoteSized |-> {},
     supEnc |-> <<>>, fileIndex |-> EmptyIndex, fp16 |-> FALSE]

FsOps == {"is_file", "exists"}
RemoteOps == {"file_exists", "repo_exists", "encoding_for_file",
              "supported_encodings", "files_for_encoding", "size_of",
              "auto_config"}

Call(op, repo, path, ans) == [op |-> op, repo |-> repo, path |-> path, ans |-> ans]

KeyClass(op) ==
    CASE op \in FsOps -> "fs"
      [] OTHER -> op

KeyOf(c) == <<KeyClass(c.op), c.repo, c.path>>
KeysOf(cs) == {KeyOf(cs[i]) : i \in DOMAIN cs}

RemoteCalls(cs) == {i \in DOMAIN cs : cs[i].op \in RemoteOps}

BoolStr(b) == IF b THEN "true" ELSE "false"

\* The machine state a handler threads through its statements.
Start(c) == [cfg |-> c, err |-> "none", calls |-> <<>>, norm |-> <<>>,
             warns |-> <<>>, wps |-> <<>>, steps |-> <<>>]

Raise(m, kind) == [m EXCEPT !.err = kind]
Logged(m, c) == [m EXCEPT !.calls = Append(@, c)]
Enter(m, name) == [m EXCEPT !.steps = Append(@, name)]

IsFile(e, p) == p \in e.files
Exists(e, p) == p \in e.files \cup e.dirs

(***************************************************************************)
(* resolve(), lines 187-275.                                               *)
(***************************************************************************)
DevicesExist(specs) == \A i \in DOMAIN specs : specs[i] \in AvailableDevices

\* lines 195-200
CheckDevices(m) ==
    IF DevicesExist(m.cfg.device_specs) THEN m ELSE Raise(m, "ValueError")

\* lines 211-212
TrustReplit(m) ==
    IF m.err # "none" THEN m
    ELSE IF IsReplit(m.cfg.model_path)
    THEN [m EXCEPT !.cfg.trust_remote_code = TRUE]
    ELSE m

\* lines 215-218
CoerceList(m) ==
    IF m.err # "none" THEN m ELSE [m EXCEPT !.cfg.wp_shape = "list"]

NormRec(i, inp, out, before, after, checked, ans, local) ==
    [idx |-> i, inp |-> inp, out |-> out, before |-> before, after |-> after,
     checked |-> checked, ans |-> ans, local |-> local]

Keep(m, i, entry, p, checked, ans, local) ==
    [m EXCEPT !.wps = Append(@, PathEntry(p)),
              !.norm = Append(@, NormRec(i, entry, p, m.cfg._weights_repo_id,
                                         m.cfg._weights_repo_id, checked, ans, local))]

\* the parse without the comparison to model_path: every candidate is looked up
ParsePiecesAlwaysLookup(e, m, i, entry, path) ==
    IF Len(path) >= 3
    THEN LET repo_id == CandidateRepo(path)
             file_name == FileNameOf(path)
             ans == <<repo_id, file_name>> \in e.remoteFiles
             m1 == Logged(m, Call("file_exists", repo_id, file_name, BoolStr(ans)))
         IN IF ans
            THEN [m1 EXCEPT
                    !.cfg._weights_repo_id = repo_id,
                    !.wps = Append(@, PathEntry(PathOf(file_name))),
                    !.norm = Append(@, NormRec(i, entry, PathOf(file_name),
                                               m.cfg._weights_repo_id, repo_id,
                                               TRUE, TRUE, FALSE))]
            ELSE Keep(m1, i, entry, path, TRUE, FALSE, FALSE)
    ELSE IF m.cfg.model_path = <<>>
    THEN Raise(m, "ValueError")
    ELSE Keep(m, i, entry, path, FALSE, FALSE, FALSE)

\* the parse that strips a foreign candidate whatever the registry answers
ParsePiecesIgnoreAnswer(e, m, i, entry, path) ==
    IF Len(path) >= 3
    THEN LET repo_id == CandidateRepo(path)
             file_name == FileNameOf(path)
         IN IF m.cfg.model_path # <<>> /\ repo_id = m.cfg.model_path
            THEN Keep(m, i, entry, PathOf(file_name), FALSE, FALSE, FALSE)
            ELSE LET ans == <<repo_id, file_name>> \in e.remoteFiles
                     m1 == Logged(m, Call("file_exists", repo_id, file_name, BoolStr(ans)))
                 IN [m1 EXCEPT
                        !.cfg._weights_repo_id = repo_id,
                        !.wps = Append(@, PathEntry(PathOf(file_name))),
                        !.norm = Append(@, NormRec(i, entry, PathOf(file_name),
                                                   m.cfg._weights_repo_id, repo_id,
                                                   TRUE, ans, FALSE))]
    ELSE IF m.cfg.model_path = <<>>
    THEN Raise(m, "ValueError")
    ELSE Keep(m, i, entry, path, FALSE, FALSE, FALSE)

\* the parse without the elif of lines 248-252: a short path is kept whatever model_path is
ParsePiecesKeepShort(e, m, i, entry, path) ==
    IF Len(path) >= 3
    THEN LET repo_id == CandidateRepo(path)
             file_name == FileNameOf(path)
         IN IF m.cfg.model_path # <<>> /\ repo_id = m.cfg.model_path
            THEN Keep(m, i, entry, PathOf(file_name), FALSE, FALSE, FALSE)
            ELSE LET ans == <<repo_id, file_name>> \in e.remoteFiles
                     m1 == Logged(m, Call("file_exists", repo_id, file_name, BoolStr(ans)))
                 IN IF ans
                    THEN [m1 EXCEPT
                            !.cfg._weights_repo_id = repo_id,
                            !.wps = Append(@, PathEntry(PathOf(file_name))),
                            !.norm = Append(@, NormRec(i, entry, PathOf(file_name),
                                                       m.cfg._weights_repo_id, repo_id,
                                                       TRUE, TRUE, FALSE))]
                    ELSE Keep(m1, i, entry, path, TRUE, FALSE, FALSE)
    ELSE Keep(m, i, entry, path, FALSE, FALSE, FALSE)

\* lines 239-254: the path is parsed for a leading repository id
ParsePieces(e, m, i, entry, path) ==
    IF Len(path) >= 3
    THEN LET repo_id == CandidateRepo(path)
             file_name == FileNameOf(path)
         IN IF m.cfg.model_path # <<>> /\ repo_id = m.cfg.model_path
            THEN Keep(m, i, entry, PathOf(file_name), FALSE, FALSE, FALSE)
            ELSE LET ans == <<repo_id, file_name>> \in e.remoteFiles
                     m1 == Logged(m, Call("file_exists", repo_id, file_name, BoolStr(ans)))
                 IN IF ans
                    THEN [m1 EXCEPT
                            !.cfg._weights_repo_id = repo_id,
                            !.wps = Append(@, PathEntry(PathOf(file_name))),
                            !.norm = Append(@, NormRec(i, entry, PathOf(file_name),
                                                       m.cfg._weights_repo_id, repo_id,
                                                       TRUE, TRUE, FALSE))]
                    ELSE Keep(m1, i, entry, path, TRUE, FALSE, FALSE)
    ELSE IF m.cfg.model_path = <<>>
    THEN Raise(m, "ValueError")
    ELSE Keep(m, i, entry, path, FALSE, FALSE, FALSE)

\* lines 221-254, one iteration of the loop
NormalizeEntry(e, m, i) ==
    LET entry == m.cfg.weight_path[i] IN
    IF entry.typ = "str"
    THEN ParsePieces(e, m, i, entry, PathOf(entry.val))
    ELSE IF entry.typ # "Path"
    THEN Raise(m, "ValueError")
    ELSE LET isf == IsFile(e, entry.val)
             m1 == Logged(m, Call("is_file", <<>>, entry.val, BoolStr(isf)))
         IN IF isf
            THEN Keep(m1, i, entry, entry.val, FALSE, FALSE, TRUE)
            ELSE ParsePieces(e, m1, i, entry, entry.val)

RECURSIVE NormalizeFrom(_, _, _)
NormalizeFrom(e, m, i) ==
    IF m.err # "none" \/ i > Len(m.cfg.weight_path) THEN m
    ELSE NormalizeFrom(e, NormalizeEntry(e, m, i), i + 1)

\* line 256
StoreWeightPaths(m) ==
    IF m.err # "none" THEN m ELSE [m EXCEPT !.cfg.weight_path = m.wps]

\* lines 258-275 with model_path replaced whenever a weights repository was recorded
FinishResolveAlwaysDerive(e, m) ==
    IF m.err # "none" THEN m
    ELSE IF Len(m.cfg.weight_path) = 0
    THEN IF m.cfg.model_path = <<>>
         THEN Raise(m, "ValueError")
         ELSE LET ex == Exists(e, m.cfg.model_path)
                  m1 == Logged(m, Call("exists", <<>>, m.cfg.model_path, BoolStr(ex)))
              IN IF ex THEN m1
                 ELSE LET rx == m.cfg.model_path \in e.remoteRepos
                          m2 == Logged(m1, Call("repo_exists", m.cfg.model_path, <<>>,
                                                BoolStr(rx)))
                      IN IF rx THEN m2 ELSE Raise(m2, "ValueError")
    ELSE IF m.cfg._weights_repo_id # NoRepoId
    THEN [m EXCEPT !.cfg.model_path = m.cfg._weights_repo_id]
    ELSE m

\* lines 258-275 asking the registry before the local filesystem
FinishResolveRegistryFirst(e, m) ==
    IF m.err # "none" THEN m
    ELSE IF Len(m.cfg.weight_path) = 0
    THEN IF m.cfg.model_path = <<>>
         THEN Raise(m, "ValueError")
         ELSE LET rx == m.cfg.model_path \in e.remoteRepos
                  m1 == Logged(m, Call("repo_exists", m.cfg.model_path, <<>>, BoolStr(rx)))
              IN IF rx THEN m1
                 ELSE LET ex == Exists(e, m.cfg.model_path)
                          m2 == Logged(m1, Call("exists", <<>>, m.cfg.model_path,
                                                BoolStr(ex)))
                      IN IF ex THEN m2 ELSE Raise(m2, "ValueError")
    ELSE IF m.cfg.model_path = <<>> /\ m.cfg._weights_repo_id # NoRepoId
    THEN [m EXCEPT !.cfg.model_path = m.cfg._weights_repo_id]
    ELSE m

\* lines 258-275
FinishResolve(e, m) ==
    IF m.err # "none" THEN m
    ELSE IF Len(m.cfg.weight_path) = 0
    THEN IF m.cfg.model_path = <<>>
         THEN Raise(m, "ValueError")
         ELSE LET ex == Exists(e, m.cfg.model_path)
                  m1 == Logged(m, Call("exists", <<>>, m.cfg.model_path, BoolStr(ex)))
              IN IF ex THEN m1
                 ELSE LET rx == m.cfg.model_path \in e.remoteRepos
                          m2 == Logged(m1, Call("repo_exists", m.cfg.model_path, <<>>,
                                                BoolStr(rx)))
                      IN IF rx THEN m2 ELSE Raise(m2, "ValueError")
    ELSE IF m.cfg.model_path = <<>> /\ m.cfg._weights_repo_id # NoRepoId
    THEN [m EXCEPT !.cfg.model_path = m.cfg._weights_repo_id]
    ELSE m

\* resolve() with the device check made after the weight paths are normalized
ResolveOpLateDeviceCheck(e, c) ==
    LET m == StoreWeightPaths(NormalizeFrom(e, CoerceList(TrustReplit(Start(c))), 1))
    IN IF m.err # "none" THEN m ELSE FinishResolve(e, CheckDevices(m))

ResolveOp(e, c) ==
    FinishResolve(e,
        StoreWeightPaths(NormalizeFrom(e, CoerceList(TrustReplit(CheckDevices(Start(c)))), 1)))

(***************************************************************************)
(* Collaborators of the config: the weights repository (hf_utils), the     *)
(* encoding enum (config_enums) and weights_format (max.graph.weights).    *)
(***************************************************************************)
LastPiece(p) == p[Len(p)]

\* Path.suffix of the file names the model draws
SuffixOf(p) ==
    CASE LastPiece(p) \in {"bf16.gguf", "plain.gguf", "q4k.gguf"} -> ".gguf"
      [] LastPiece(p) \in {"model.safetensors"} -> ".safetensors"
      [] LastPiece(p) \in {"model.bin"} -> ".bin"
      [] OTHER -> ""

\* SupportedEncoding.parse_from_file_name: the encoding tag inside a file name
ParseFromFileName(p) ==
    CASE LastPiece(p) = "bf16.gguf" -> "bfloat16"
      [] LastPiece(p) = "q4k.gguf" -> "q4_k"
      [] OTHER -> NoEncoding

\* weights_format(weight_path); "none" stands for the ValueError caught at line 394
WeightsFormatOf(wp) ==
    IF wp = <<>> THEN "none"
    ELSE IF \A i \in DOMAIN wp : SuffixOf(wp[i].val) = ".gguf" THEN "gguf"
    ELSE IF \A i \in DOMAIN wp : SuffixOf(wp[i].val) = ".safetensors" THEN "safetensors"
    ELSE IF \A i \in DOMAIN wp : SuffixOf(wp[i].val) = ".bin" THEN "pytorch"
    ELSE "none"

\* SupportedEncoding.supported_on(device_spec)
SupportedOn(enc, dev) ==
    CASE enc = "float32" -> dev.device_type \in {"cpu", "gpu"}
      [] enc = "bfloat16" -> dev.device_type = "gpu"
      [] enc = "q4_k" -> dev.device_type = "cpu"
      [] enc = "gptq" -> dev.device_type = "gpu"
      [] OTHER -> FALSE

\* _ALTERNATE_ENCODINGS.get(encoding)
AlternateEncoding(enc) == IF enc = "float32" THEN "bfloat16" ELSE NoEncoding

\* HuggingFaceRepo.encoding_for_file
EncodingForFile(e, p) ==
    IF \E x \in e.encForFile : x[1] = p
    THEN (CHOOSE x \in e.encForFile : x[1] = p)[2]
    ELSE NoEncoding

\* HuggingFaceRepo.files_for_encoding(encoding, alternate_encoding): the
\* requested encoding's files per format, the alternate's when it has none
HasFiles(ix) == \E i \in DOMAIN ix : ix[i].files # <<>>
FilesForEncoding(e, enc, alt) ==
    IF HasFiles(e.fileIndex[enc]) THEN e.fileIndex[enc]
    ELSE IF alt # NoEncoding THEN e.fileIndex[alt]
    ELSE e.fileIndex[enc]

\* HuggingFaceRepo.repo_type
RepoTypeOf(e, id) == IF Exists(e, id) THEN "local" ELSE "online"

\* dict.get(key, []) and next(iter(dict.values())) on a format -> files mapping
FilesOfFormat(ix, fmt) ==
    IF \E i \in DOMAIN ix : ix[i].fmt = fmt
    THEN ix[CHOOSE i \in DOMAIN ix : ix[i].fmt = fmt].files
    ELSE <<>>
FirstFiles(ix) == ix[1].files

PathEntries(files) == [i \in DOMAIN files |-> PathEntry(files[i])]

(***************************************************************************)
(* huggingface_weights_repo, lines 358-368: built on first use and cached. *)
(***************************************************************************)
RepoIdOf(c) == IF c._weights_repo_id # NoRepoId THEN c._weights_repo_id ELSE c.model_path

WeightsRepo(e, m) ==
    IF m.cfg.repo # NoRepo THEN m
    ELSE LET id == RepoIdOf(m.cfg)
             m1 == Logged(m, Call("exists", <<>>, id, BoolStr(Exists(e, id))))
         IN [m1 EXCEPT !.cfg.repo = [id |-> id, type |-> RepoTypeOf(e, id)]]

(***************************************************************************)
(* validate_and_resolve_quantization_encoding_weight_path, lines 385-463.  *)
(***************************************************************************)
FirstPath(m) == m.cfg.weight_path[1].val

\* the comparison of lines 412-415 resolved in favour of the file instead of raising
CheckConsistentAdoptFile(m, file_encoding) ==
    IF file_encoding # NoEncoding /\ file_encoding # m.cfg.quantization_encoding
    THEN [m EXCEPT !.cfg.quantization_encoding = file_encoding]
    ELSE m

\* lines 403-415
CheckConsistent(m, file_encoding) ==
    IF file_encoding # NoEncoding /\ file_encoding # m.cfg.quantization_encoding
    THEN Raise(m, "ValueError")
    ELSE m

ValidateGivenEncoding(e, m) ==
    LET ex == Exists(e, FirstPath(m))
        m1 == Logged(m, Call("exists", <<>>, FirstPath(m), BoolStr(ex)))
    IN IF ex
       THEN CheckConsistent(m1, ParseFromFileName(FirstPath(m)))
       ELSE LET m2 == WeightsRepo(e, m1)
                fe == EncodingForFile(e, FirstPath(m))
            IN CheckConsistent(
                   Logged(m2, Call("encoding_for_file", m2.cfg.repo.id, FirstPath(m), fe)), fe)

\* lines 422-444
InferEncoding(e, m) ==
    LET ex == Exists(e, FirstPath(m))
        m1 == Logged(m, Call("exists", <<>>, FirstPath(m), BoolStr(ex)))
    IN IF ex
       THEN IF SuffixOf(FirstPath(m)) = ".safetensors"
            THEN Raise(m1, "ValueError")
            ELSE IF ParseFromFileName(FirstPath(m)) # NoEncoding
            THEN [m1 EXCEPT !.cfg.quantization_encoding = ParseFromFileName(FirstPath(m))]
            ELSE m1
       ELSE LET m2 == WeightsRepo(e, m1)
                fe == EncodingForFile(e, FirstPath(m))
                m3 == Logged(m2, Call("encoding_for_file", m2.cfg.repo.id, FirstPath(m), fe))
            IN IF fe # NoEncoding
               THEN [m3 EXCEPT !.cfg.quantization_encoding = fe]
               ELSE Raise(m3, "ValueError")

\* lines 445-463
InList(x, s) == \E i \in DOMAIN s : s[i] = x

\* lines 445-463 without the single-encoding branch of lines 450-453
DefaultEncodingNoShortcut(e, m, default_encoding) ==
    LET m1 == WeightsRepo(e, m)
        se == e.supEnc
        m2 == Logged(m1, Call("supported_encodings", m1.cfg.repo.id, <<>>, "list"))
    IN IF m.cfg.device_specs = <<>>
       THEN Raise(m2, "IndexError")
       ELSE IF m.cfg.device_specs[1].device_type # "cpu" /\ InList("bfloat16", se)
       THEN [m2 EXCEPT !.cfg.quantization_encoding = "bfloat16"]
       ELSE [m2 EXCEPT !.cfg.quantization_encoding = default_encoding]

\* branch 3 without the accelerator rule of lines 455-460
DefaultEncodingNoAccelerator(e, m, default_encoding) ==
    LET m1 == WeightsRepo(e, m)
        se == e.supEnc
        m2 == Logged(m1, Call("supported_encodings", m1.cfg.repo.id, <<>>, "list"))
    IN IF Len(se) = 1
       THEN [m2 EXCEPT !.cfg.quantization_encoding = se[1]]
       ELSE [m2 EXCEPT !.cfg.quantization_encoding = default_encoding]

\* lines 445-463
DefaultEncoding(e, m, default_encoding) ==
    LET m1 == WeightsRepo(e, m)
        se == e.supEnc
        m2 == Logged(m1, Call("supported_encodings", m1.cfg.repo.id, <<>>, "list"))
    IN IF Len(se) = 1
       THEN [m2 EXCEPT !.cfg.quantization_encoding = se[1]]
       ELSE IF m.cfg.device_specs = <<>>
       THEN Raise(m2, "IndexError")
       ELSE IF m.cfg.device_specs[1].device_type # "cpu" /\ InList("bfloat16", se)
       THEN [m2 EXCEPT !.cfg.quantization_encoding = "bfloat16"]
       ELSE [m2 EXCEPT !.cfg.quantization_encoding = default_encoding]

\* lines 391-463 with the body of the else branch run whether or not an encoding is set
ResolveEncodingOpDefaultOverrides(e, c, default_encoding) ==
    LET m == Start(c)
        fmt == WeightsFormatOf(c.weight_path)
    IN IF c.weight_path # <<>> /\ c.quantization_encoding # NoEncoding /\ fmt # "pytorch"
       THEN ValidateGivenEncoding(e, m)
       ELSE IF c.weight_path # <<>> /\ c.quantization_encoding = NoEncoding /\ fmt # "pytorch"
       THEN InferEncoding(e, m)
       ELSE DefaultEncoding(e, m, default_encoding)

\* lines 391-463 without the pytorch exemption of lines 399 and 420
ResolveEncodingOpNoExemption(e, c, default_encoding) ==
    LET m == Start(c)
    IN IF c.weight_path # <<>> /\ c.quantization_encoding # NoEncoding
       THEN ValidateGivenEncoding(e, m)
       ELSE IF c.weight_path # <<>> /\ c.quantization_encoding = NoEncoding
       THEN InferEncoding(e, m)
       ELSE IF c.quantization_encoding = NoEncoding
       THEN DefaultEncoding(e, m, default_encoding)
       ELSE m

\* lines 391-463
ResolveEncodingOp(e, c, default_encoding) ==
    LET m == Start(c)
        fmt == WeightsFormatOf(c.weight_path)
    IN IF c.weight_path # <<>> /\ c.quantization_encoding # NoEncoding /\ fmt # "pytorch"
       THEN ValidateGivenEncoding(e, m)
       ELSE IF c.weight_path # <<>> /\ c.quantization_encoding = NoEncoding /\ fmt # "pytorch"
       THEN InferEncoding(e, m)
       ELSE IF c.quantization_encoding = NoEncoding
       THEN DefaultEncoding(e, m, default_encoding)
       ELSE m

(***************************************************************************)
(* validate_and_resolve_with_set_quantization_encoding, lines 465-481, and *)
(* its five stages.                                                        *)
(***************************************************************************)
\* lines 483-508 with the test made for the first device spec only
ValidateDeviceCompatibilityFirstOnly(m0) ==
    LET m == Enter(m0, "device_compatibility") IN
    IF m.cfg.quantization_encoding = NoEncoding THEN Raise(m, "AssertionError")
    ELSE IF m.cfg.device_specs # <<>>
            /\ ~SupportedOn(m.cfg.quantization_encoding, m.cfg.device_specs[1])
    THEN Raise(m, "ValueError")
    ELSE m

\* lines 483-508
ValidateDeviceCompatibility(m0) ==
    LET m == Enter(m0, "device_compatibility") IN
    IF m.cfg.quantization_encoding = NoEncoding THEN Raise(m, "AssertionError")
    ELSE IF \E i \in DOMAIN m.cfg.device_specs :
               ~SupportedOn(m.cfg.quantization_encoding, m.cfg.device_specs[i])
    THEN Raise(m, "ValueError")
    ELSE m

\* lines 630-656
FinalizeEncodingConfig(e, m0) ==
    IF m0.err # "none" THEN m0
    ELSE LET m == Enter(m0, "finalize_encoding") IN
    IF m.cfg.quantization_encoding = "gptq"
    THEN LET m1 == Logged(m, Call("auto_config", m.cfg.model_path, <<>>, BoolStr(e.fp16)))
         IN IF ~e.fp16 THEN Raise(m1, "ValueError")
            ELSE [m1 EXCEPT !.cfg._quant_config = TRUE]
    ELSE m

\* lines 510-560 without the test of line 525: the default files are always fetched
ResolveWeightPathAlwaysFill(e, m0, default_weights_format) ==
    IF m0.err # "none" THEN m0
    ELSE LET m == Enter(m0, "weight_path") IN
    IF m.cfg.quantization_encoding = NoEncoding THEN Raise(m, "AssertionError")
    ELSE LET m1 == WeightsRepo(e, m)
             wf == FilesForEncoding(e, m.cfg.quantization_encoding,
                                    AlternateEncoding(m.cfg.quantization_encoding))
             m2 == Logged(m1, Call("files_for_encoding", m1.cfg.repo.id, <<>>,
                                   m.cfg.quantization_encoding))
             filled ==
                IF FilesOfFormat(wf, default_weights_format) # <<>>
                THEN [m2 EXCEPT !.cfg.weight_path =
                            PathEntries(FilesOfFormat(wf, default_weights_format))]
                ELSE IF wf # <<>>
                THEN [m2 EXCEPT !.cfg.weight_path = PathEntries(FirstFiles(wf))]
                ELSE m2
         IN IF filled.cfg.weight_path = <<>> THEN Raise(filled, "ValueError") ELSE filled

\* lines 510-560 taking the first format of the index whatever the default format is
ResolveWeightPathFirstFormat(e, m0, default_weights_format) ==
    IF m0.err # "none" THEN m0
    ELSE LET m == Enter(m0, "weight_path") IN
    IF m.cfg.quantization_encoding = NoEncoding THEN Raise(m, "AssertionError")
    ELSE LET filled ==
                IF m.cfg.weight_path # <<>> THEN m
                ELSE LET m1 == WeightsRepo(e, m)
                         wf == FilesForEncoding(e, m.cfg.quantization_encoding,
                                                AlternateEncoding(m.cfg.quantization_encoding))
                         m2 == Logged(m1, Call("files_for_encoding", m1.cfg.repo.id, <<>>,
                                               m.cfg.quantization_encoding))
                     IN IF wf # <<>>
                        THEN [m2 EXCEPT !.cfg.weight_path = PathEntries(FirstFiles(wf))]
                        ELSE m2
         IN IF filled.cfg.weight_path = <<>> THEN Raise(filled, "ValueError") ELSE filled

\* lines 510-560
ResolveWeightPath(e, m0, default_weights_format) ==
    IF m0.err # "none" THEN m0
    ELSE LET m == Enter(m0, "weight_path") IN
    IF m.cfg.quantization_encoding = NoEncoding THEN Raise(m, "AssertionError")
    ELSE LET filled ==
                IF m.cfg.weight_path # <<>> THEN m
                ELSE LET m1 == WeightsRepo(e, m)
                         wf == FilesForEncoding(e, m.cfg.quantization_encoding,
                                                AlternateEncoding(m.cfg.quantization_encoding))
                         m2 == Logged(m1, Call("files_for_encoding", m1.cfg.repo.id, <<>>,
                                               m.cfg.quantization_encoding))
                     IN IF FilesOfFormat(wf, default_weights_format) # <<>>
                        THEN [m2 EXCEPT !.cfg.weight_path =
                                    PathEntries(FilesOfFormat(wf, default_weights_format))]
                        ELSE IF wf # <<>>
                        THEN [m2 EXCEPT !.cfg.weight_path = PathEntries(FirstFiles(wf))]
                        ELSE m2
         IN IF filled.cfg.weight_path = <<>> THEN Raise(filled, "ValueError") ELSE filled

\* the strategy selection without the downgrade branch of lines 586-596
ResolveKvCacheStrategyNoDowngrade(m0, supported) ==
    IF m0.err # "none" THEN m0
    ELSE LET m == Enter(m0, "kv_cache_strategy") IN
    IF m.cfg.quantization_encoding = NoEncoding THEN Raise(m, "AssertionError")
    ELSE LET strategies == supported[m.cfg.quantization_encoding]
         IN IF m.cfg.cache_strategy = "model_default" /\ strategies # <<>>
            THEN [m EXCEPT !.cfg.cache_strategy = strategies[1]]
            ELSE m

\* lines 562-596 taking the last supported strategy as the default
ResolveKvCacheStrategyLast(m0, supported) ==
    IF m0.err # "none" THEN m0
    ELSE LET m == Enter(m0, "kv_cache_strategy") IN
    IF m.cfg.quantization_encoding = NoEncoding THEN Raise(m, "AssertionError")
    ELSE LET strategies == supported[m.cfg.quantization_encoding]
         IN IF m.cfg.cache_strategy = "model_default" /\ strategies # <<>>
            THEN [m EXCEPT !.cfg.cache_strategy = strategies[Len(strategies)]]
            ELSE IF strategies # <<>> /\ ~InList(m.cfg.cache_strategy, strategies)
            THEN [m EXCEPT !.cfg.cache_strategy = strategies[1],
                           !.warns = Append(@, "cache_strategy not supported")]
            ELSE m

\* lines 562-596 rejecting an unsupported strategy instead of replacing it
ResolveKvCacheStrategyStrict(m0, supported) ==
    IF m0.err # "none" THEN m0
    ELSE LET m == Enter(m0, "kv_cache_strategy") IN
    IF m.cfg.quantization_encoding = NoEncoding THEN Raise(m, "AssertionError")
    ELSE LET strategies == supported[m.cfg.quantization_encoding]
         IN IF m.cfg.cache_strategy = "model_default" /\ strategies # <<>>
            THEN [m EXCEPT !.cfg.cache_strategy = strategies[1]]
            ELSE IF strategies # <<>> /\ ~InList(m.cfg.cache_strategy, strategies)
            THEN Raise(m, "ValueError")
            ELSE m

\* lines 562-596 resetting the strategy to the first supported one in every case
ResolveKvCacheStrategyAlwaysFirst(m0, supported) ==
    IF m0.err # "none" THEN m0
    ELSE LET m == Enter(m0, "kv_cache_strategy") IN
    IF m.cfg.quantization_encoding = NoEncoding THEN Raise(m, "AssertionError")
    ELSE LET strategies == supported[m.cfg.quantization_encoding]
         IN IF strategies # <<>>
            THEN [m EXCEPT !.cfg.cache_strategy = strategies[1]]
            ELSE m

\* lines 562-596
ResolveKvCacheStrategy(m0, supported) ==
    IF m0.err # "none" THEN m0
    ELSE LET m == Enter(m0, "kv_cache_strategy") IN
    IF m.cfg.quantization_encoding = NoEncoding THEN Raise(m, "AssertionError")
    ELSE LET strategies == supported[m.cfg.quantization_encoding]
         IN IF m.cfg.cache_strategy = "model_default" /\ strategies # <<>>
            THEN [m EXCEPT !.cfg.cache_strategy = strategies[1]]
            ELSE IF strategies # <<>> /\ ~InList(m.cfg.cache_strategy, strategies)
            THEN [m EXCEPT !.cfg.cache_strategy = strategies[1],
                           !.warns = Append(@, "cache_strategy not supported")]
            ELSE m

\* the probe looking in the download cache for a local repository as well
LocalWeightPathCacheForAll(e, m, p) ==
    LET m0 == WeightsRepo(e, m)
        repo == m0.cfg.repo
        m1 == Logged(m0, Call("is_file", <<>>, p, BoolStr(IsFile(e, p))))
    IN IF IsFile(e, p) THEN [m |-> m1, found |-> TRUE]
       ELSE IF repo.type \in {"local", "online"}
       THEN LET ans == IF <<repo.id, p>> \in e.cacheAbsent THEN "absent"
                       ELSE IF <<repo.id, p>> \in e.cacheHit THEN "hit" ELSE "miss"
                m2 == Logged(m1, Call("cache", repo.id, p, ans))
            IN IF ans = "absent" THEN [m |-> Raise(m2, "FileNotFoundError"), found |-> FALSE]
               ELSE [m |-> m2, found |-> ans = "hit"]
       ELSE [m |-> [m1 EXCEPT !.warns = Append(@, "unexpected repository type")],
             found |-> FALSE]

\* the probe reading the confirmed-absent sentinel as a plain miss
LocalWeightPathAbsentIsMiss(e, m, p) ==
    LET m0 == WeightsRepo(e, m)
        repo == m0.cfg.repo
        m1 == Logged(m0, Call("is_file", <<>>, p, BoolStr(IsFile(e, p))))
    IN IF IsFile(e, p) THEN [m |-> m1, found |-> TRUE]
       ELSE IF repo.type = "local" THEN [m |-> m1, found |-> FALSE]
       ELSE IF repo.type = "online"
       THEN LET ans == IF <<repo.id, p>> \in e.cacheAbsent THEN "absent"
                       ELSE IF <<repo.id, p>> \in e.cacheHit THEN "hit" ELSE "miss"
                m2 == Logged(m1, Call("cache", repo.id, p, ans))
            IN [m |-> m2, found |-> ans = "hit"]
       ELSE [m |-> [m1 EXCEPT !.warns = Append(@, "unexpected repository type")],
             found |-> FALSE]

\* _local_weight_path, lines 658-712: [m, found]
LocalWeightPath(e, m, p) ==
    LET m0 == WeightsRepo(e, m)
        repo == m0.cfg.repo
        m1 == Logged(m0, Call("is_file", <<>>, p, BoolStr(IsFile(e, p))))
    IN IF IsFile(e, p) THEN [m |-> m1, found |-> TRUE]
       ELSE IF repo.type = "local" THEN [m |-> m1, found |-> FALSE]
       ELSE IF repo.type = "online"
       THEN LET ans == IF <<repo.id, p>> \in e.cacheAbsent THEN "absent"
                       ELSE IF <<repo.id, p>> \in e.cacheHit THEN "hit" ELSE "miss"
                m2 == Logged(m1, Call("cache", repo.id, p, ans))
            IN IF ans = "absent" THEN [m |-> Raise(m2, "FileNotFoundError"), found |-> FALSE]
               ELSE [m |-> m2, found |-> ans = "hit"]
       ELSE [m |-> [m1 EXCEPT !.warns = Append(@, "unexpected repository type")],
             found |-> FALSE]

\* the loop body without the registry lookup for an online repository
ValidatePathNoRemoteCheck(e, m, i) ==
    LET p == m.cfg.weight_path[i].val
        r == LocalWeightPath(e, m, p)
        repo == r.m.cfg.repo
    IN IF r.m.err # "none" \/ r.found THEN r.m
       ELSE IF repo.type = "local" THEN Raise(r.m, "FileNotFoundError")
       ELSE IF repo.type = "online" THEN r.m
       ELSE Raise(r.m, "RuntimeError")

\* the loop body raising the online repository's error for a local repository too
ValidatePathOneErrorKind(e, m, i) ==
    LET p == m.cfg.weight_path[i].val
        r == LocalWeightPath(e, m, p)
        repo == r.m.cfg.repo
    IN IF r.m.err # "none" \/ r.found THEN r.m
       ELSE IF repo.type = "local" THEN Raise(r.m, "ValueError")
       ELSE IF repo.type = "online"
       THEN LET ans == <<repo.id, p>> \in e.remoteFiles
                m1 == Logged(r.m, Call("file_exists", repo.id, p, BoolStr(ans)))
            IN IF ans THEN m1 ELSE Raise(m1, "ValueError")
       ELSE Raise(r.m, "RuntimeError")

\* lines 603-628, one iteration of the loop
ValidatePath(e, m, i) ==
    LET p == m.cfg.weight_path[i].val
        r == LocalWeightPath(e, m, p)
        repo == r.m.cfg.repo
    IN IF r.m.err # "none" \/ r.found THEN r.m
       ELSE IF repo.type = "local" THEN Raise(r.m, "FileNotFoundError")
       ELSE IF repo.type = "online"
       THEN LET ans == <<repo.id, p>> \in e.remoteFiles
                m1 == Logged(r.m, Call("file_exists", repo.id, p, BoolStr(ans)))
            IN IF ans THEN m1 ELSE Raise(m1, "ValueError")
       ELSE Raise(r.m, "RuntimeError")

RECURSIVE ValidateFrom(_, _, _)
ValidateFrom(e, m, i) ==
    IF m.err # "none" \/ i > Len(m.cfg.weight_path) THEN m
    ELSE ValidateFrom(e, ValidatePath(e, m, i), i + 1)

(***************************************************************************)
(* weights_size, lines 298-356.  Sizes are those of the file the probe     *)
(* located (the path itself, or its copy in the download cache) and the    *)
(* one the registry reports; the three tables are kept apart so that a     *)
(* total shows where each term came from.                                  *)
(***************************************************************************)
PathRank(p) == IF p = <<"bf16.gguf">> THEN 1 ELSE 2
DirectSize(p) == PathRank(p)
CachedSize(p) == 4 * PathRank(p)
RemoteSize(p) == 16 * PathRank(p)

\* os.path.getsize(local_file_location), line 332
GetSize(e, p) == IF IsFile(e, p) THEN DirectSize(p) ELSE CachedSize(p)

\* lines 327-354, one iteration of the loop: [m, size]
SizeOfPath(e, m, i) ==
    LET p == m.cfg.weight_path[i].val
        r == LocalWeightPath(e, m, p)
        repo == r.m.cfg.repo
    IN IF r.m.err # "none" THEN [m |-> r.m, size |-> 0]
       ELSE IF r.found THEN [m |-> r.m, size |-> GetSize(e, p)]
       ELSE IF repo.type = "local" THEN [m |-> Raise(r.m, "FileNotFoundError"), size |-> 0]
       ELSE IF repo.type = "online"
       THEN LET ans == <<repo.id, p>> \in e.remoteSized
                m1 == Logged(r.m, Call("size_of", repo.id, p, BoolStr(ans)))
            IN IF ans THEN [m |-> m1, size |-> RemoteSize(p)]
               ELSE [m |-> Raise(m1, "ValueError"), size |-> 0]
       ELSE [m |-> Raise(r.m, "RuntimeError"), size |-> 0]

\* the loop of lines 327-354 keeping the last size instead of adding it
RECURSIVE WeightsSizeFromLastOnly(_, _, _, _)
WeightsSizeFromLastOnly(e, m, i, total) ==
    IF m.err # "none" \/ i > Len(m.cfg.weight_path) THEN [m |-> m, total |-> total]
    ELSE LET s == SizeOfPath(e, m, i)
         IN WeightsSizeFromLastOnly(e, s.m, i + 1, s.size)

RECURSIVE WeightsSizeFrom(_, _, _, _)
WeightsSizeFrom(e, m, i, total) ==
    IF m.err # "none" \/ i > Len(m.cfg.weight_path) THEN [m |-> m, total |-> total]
    ELSE LET s == SizeOfPath(e, m, i)
         IN WeightsSizeFrom(e, s.m, i + 1, total + s.size)

\* lines 298-356: [m, total]
WeightsSize(e, m0) == WeightsSizeFrom(e, WeightsRepo(e, Enter(m0, "weights_size")), 1, 0)

\* lines 598-628
ValidateFinal(e, m0) ==
    IF m0.err # "none" THEN m0
    ELSE LET m == Enter(m0, "final_validation") IN
    IF m.cfg.weight_path = <<>> THEN Raise(m, "AssertionError")
    ELSE ValidateFrom(e, WeightsRepo(e, m), 1)

\* lines 465-481 with the final validation called before the weight path is filled
ResolveWithEncodingOpValidateFirst(e, c, supported, default_weights_format) ==
    ResolveKvCacheStrategy(
        ResolveWeightPath(e,
            ValidateFinal(e,
                FinalizeEncodingConfig(e, ValidateDeviceCompatibility(Start(c)))),
            default_weights_format),
        supported)

\* lines 465-481
ResolveWithEncodingOp(e, c, supported, default_weights_format) ==
    ValidateFinal(e,
        ResolveKvCacheStrategy(
            ResolveWeightPath(e,
                FinalizeEncodingConfig(e, ValidateDeviceCompatibility(Start(c))),
                default_weights_format),
            supported))

(***************************************************************************)
(* Lazy environment: candidate answers, and the test that a candidate      *)
(* environment sets nothing that was not asked.                            *)
(***************************************************************************)
KnownPaths(cls) == {k[3] : k \in {x \in known : x[1] = cls}}
KnownPairs(cls) == {<<k[2], k[3]>> : k \in {x \in known : x[1] = cls}}
KnownClass(cls) == \E k \in known : k[1] = cls

AskedPaths(cs, cls) == {k[3] : k \in {x \in KeysOf(cs) : x[1] = cls}}
AskedPairs(cs, cls) == {<<k[2], k[3]>> : k \in {x \in KeysOf(cs) : x[1] = cls}}
AskedClass(cs, cls) == \E k \in KeysOf(cs) : k[1] = cls

Canonical(e, cs) ==
    /\ (e.files \cup e.dirs) \ (env.files \cup env.dirs) \subseteq AskedPaths(cs, "fs")
    /\ e.remoteFiles \ env.remoteFiles \subseteq AskedPairs(cs, "file_exists")
    /\ {<<r, <<>>>> : r \in e.remoteRepos \ env.remoteRepos}
            \subseteq AskedPairs(cs, "repo_exists")
    /\ (e.cacheHit \cup e.cacheAbsent) \ (env.cacheHit \cup env.cacheAbsent)
            \subseteq AskedPairs(cs, "cache")
    /\ {x[1] : x \in e.encForFile \ env.encForFile} \subseteq AskedPaths(cs, "encoding_for_file")
    /\ (e.supEnc # env.supEnc => AskedClass(cs, "supported_encodings"))
    /\ (e.fileIndex # env.fileIndex => AskedClass(cs, "files_for_encoding"))
    /\ (e.fp16 # env.fp16 => AskedClass(cs, "auto_config"))

\* The state after a handler ended in machine state m under environment e.
CommitWith(e, m, name, next, value) ==
    /\ cfg' = m.cfg
    /\ env' = e
    /\ known' = known \cup KeysOf(m.calls)
    /\ pc' = IF m.err = "none" THEN next ELSE "failed"
    /\ err' = m.err
    /\ stage' = name
    /\ calls' = calls \o m.calls
    /\ norm' = IF name = "resolve" THEN m.norm ELSE norm
    /\ warns' = warns \o m.warns
    /\ steps' = m.steps
    /\ pre' = cfg
    /\ ret' = value
    /\ UNCHANGED <<cfg0, run, par>>

Commit(e, m, name, next) == CommitWith(e, m, name, next, <<>>)

\* Paths resolve() may ask the filesystem about, and pairs it may ask the registry about.
EntryPaths(c) ==
    {c.weight_path[i].val : i \in {j \in DOMAIN c.weight_path : c.weight_path[j].typ = "Path"}}
EntryPairs(c) ==
    {<<CandidateRepo(PathOf(c.weight_path[i].val)), FileNameOf(PathOf(c.weight_path[i].val))>> :
        i \in {j \in DOMAIN c.weight_path :
                 c.weight_path[j].typ # "other" /\ Len(PathOf(c.weight_path[j].val)) >= 3}}

Resolve ==
    /\ pc = "start"
    /\ \E F \in SUBSET (EntryPaths(cfg) \ KnownPaths("fs")),
          D \in SUBSET ({cfg.model_path} \ ({<<>>} \cup KnownPaths("fs"))),
          R \in SUBSET (EntryPairs(cfg) \ KnownPairs("file_exists")),
          Q \in SUBSET ({cfg.model_path} \ ({<<>>} \cup {p[1] : p \in KnownPairs("repo_exists")})) :
        LET e == [env EXCEPT !.files = @ \cup F, !.dirs = @ \cup D,
                             !.remoteFiles = @ \cup R, !.remoteRepos = @ \cup Q]
            m == ResolveOp(e, cfg)
        IN /\ Canonical(e, m.calls)
           /\ Commit(e, m, "resolve", "resolved")
    /\ UNCHANGED args

(***************************************************************************)
(* The answers and arguments the later stages may meet.                    *)
(***************************************************************************)
SupportedEncodingsChoices ==
    {<<>>, <<"bfloat16">>, <<"q4_k">>, <<"float32", "bfloat16">>, <<"float32", "q4_k">>}

Files(fmt, files) == [fmt |-> fmt, files |-> files]
IndexChoices ==
    {EmptyIndex,
     [EmptyIndex EXCEPT !["bfloat16"] = <<Files("safetensors", <<<<"model.safetensors">>>>)>>],
     [EmptyIndex EXCEPT !["float32"] = <<Files("gguf", <<>>),
                                         Files("safetensors", <<<<"model.safetensors">>>>)>>],
     [EmptyIndex EXCEPT !["bfloat16"] = <<Files("gguf", <<<<"bf16.gguf">>>>),
                                          Files("safetensors", <<<<"model.safetensors">>,
                                                                 <<"sub", "dir", "model.safetensors">>>>)>>,
                        !["q4_k"] = <<Files("gguf", <<<<"q4k.gguf">>>>)>>]}

DefaultEncodings == {"float32", "q4_k"}
DefaultFormats == {"gguf", "safetensors"}
KvChoices ==
    {[x \in Encodings |-> <<>>],
     [x \in Encodings |-> IF x = "bfloat16" THEN <<"paged", "continuous">>
                          ELSE IF x = "gptq" THEN <<>> ELSE <<"continuous">>],
     [x \in Encodings |-> <<"paged">>]}

Range(s) == {s[i] : i \in DOMAIN s}
IndexedFiles(ix) == UNION {Range(ix[i].files) : i \in DOMAIN ix}

\* An index keyed by encoding lists a file under the encoding the registry
\* reports for that file.
Coherent(e) ==
    \A x \in e.encForFile : \A enc \in Encodings :
        x[1] \in IndexedFiles(e.fileIndex[enc]) => x[2] = enc

RepoNow(c) == IF c.repo # NoRepo THEN c.repo.id ELSE RepoIdOf(c)
DirChoices(c) == SUBSET ({RepoNow(c)} \ ({<<>>} \cup KnownPaths("fs")))

\* An argument the stage does not read is drawn once.
ResolveEncoding ==
    /\ pc = "resolved"
    /\ \E d \in DefaultEncodings,
          F \in SUBSET ({cfg.weight_path[i].val : i \in DOMAIN cfg.weight_path
                                                       \cap {1}} \ KnownPaths("fs")),
          D \in DirChoices(cfg),
          X \in {{}} \cup {{<<cfg.weight_path[i].val, x>>} :
                              i \in DOMAIN cfg.weight_path \cap {1}, x \in Encodings},
          S \in IF KnownClass("supported_encodings") THEN {env.supEnc}
                ELSE SupportedEncodingsChoices :
        LET e == [env EXCEPT !.files = @ \cup F, !.dirs = @ \cup D,
                             !.encForFile = @ \cup {x \in X :
                                    x[1] \notin KnownPaths("encoding_for_file")},
                             !.supEnc = S]
            m == ResolveEncodingOp(e, cfg, d)
        IN /\ IF run = 1
              THEN AskedClass(m.calls, "supported_encodings") \/ d = "float32"
              ELSE d = args.default_encoding
           /\ Canonical(e, m.calls)
           /\ Coherent(e)
           /\ Commit(e, m, "encoding", "encoded")
           /\ args' = [args EXCEPT !.default_encoding = d]

Statuses == {"local", "hit", "absent", "remote", "nowhere"}

\* The weight paths the final validation will look for: those of the config,
\* or those the default fill takes from the index.
PathsToValidate(e, c, f) ==
    LET m == ResolveWeightPath(e,
                 FinalizeEncodingConfig(e, ValidateDeviceCompatibility(Start(c))), f)
    IN IF m.err # "none" THEN {}
       ELSE {m.cfg.weight_path[i].val : i \in DOMAIN m.cfg.weight_path}

ResolveWithEncoding ==
    /\ pc = "encoded"
    /\ \E k \in KvChoices, f \in DefaultFormats,
          ix \in IF KnownClass("files_for_encoding") \/ cfg.weight_path # <<>>
                 THEN {env.fileIndex} ELSE IndexChoices,
          D \in DirChoices(cfg),
          fp \in IF cfg.quantization_encoding = "gptq" /\ ~KnownClass("auto_config")
                 THEN BOOLEAN ELSE {env.fp16} :
        LET e0 == [env EXCEPT !.fileIndex = ix, !.dirs = @ \cup D, !.fp16 = fp]
            P == PathsToValidate(e0, cfg, f)
            id == RepoNow(cfg)
        IN \E st \in [P -> Statuses] :
            LET e == [e0 EXCEPT
                        !.files = @ \cup {q \in P \ KnownPaths("fs") : st[q] = "local"},
                        !.cacheHit = @ \cup {<<id, q>> : q \in
                            {y \in P : st[y] = "hit" /\ <<id, y>> \notin KnownPairs("cache")}},
                        !.cacheAbsent = @ \cup {<<id, q>> : q \in
                            {y \in P : st[y] = "absent" /\ <<id, y>> \notin KnownPairs("cache")}},
                        !.remoteFiles = @ \cup {<<id, q>> : q \in
                            {y \in P : st[y] = "remote"
                                       /\ <<id, y>> \notin KnownPairs("file_exists")}}]
                m == ResolveWithEncodingOp(e, cfg, k, f)
            IN /\ IF run = 1
                  THEN AskedClass(m.calls, "files_for_encoding") \/ f = "safetensors"
                  ELSE k = args.supported /\ f = args.default_weights_format
               /\ Canonical(e, m.calls)
               /\ Coherent(e)
               /\ Commit(e, m, "with_encoding", "done")
               /\ args' = [args EXCEPT !.supported = k, !.default_weights_format = f]

\* The caller runs the whole resolution again on the object it already resolved.
Rerun ==
    /\ pc = "done"
    /\ run < MaxRuns
    /\ pc' = "start"
    /\ run' = run + 1
    /\ cfg0' = cfg
    /\ err' = "none"
    /\ stage' = "new"
    /\ calls' = <<>>
    /\ norm' = <<>>
    /\ warns' = <<>>
    /\ steps' = <<>>
    /\ pre' = cfg
    /\ ret' = <<>>
    /\ UNCHANGED <<cfg, env, known, args, par>>

(***************************************************************************)
(* Initial states: the config as constructed by the caller.                *)
(***************************************************************************)
NoArgs == [default_encoding |-> NoEncoding, supported |-> [x \in Encodings |-> <<>>],
           default_weights_format |-> "none"]

Config(mp, wp, shape, enc, kv, devs, trust) ==
    [model_path |-> mp, weight_path |-> wp, wp_shape |-> shape,
     quantization_encoding |-> enc, cache_strategy |-> kv,
     device_specs |-> devs, trust_remote_code |-> trust,
     _weights_repo_id |-> NoRepoId, _quant_config |-> FALSE, repo |-> NoRepo]

\* no second object
NoPar == [objs |-> <<>>, heap |-> <<>>, init |-> <<>>]

InitObject(C) ==
    /\ cfg \in C
    /\ cfg0 = cfg
    /\ pc = "start"
    /\ err = "none"
    /\ stage = "new"
    /\ calls = <<>>
    /\ norm = <<>>
    /\ warns = <<>>
    /\ steps = <<>>
    /\ run = 1
    /\ pre = cfg
    /\ ret = <<>>

InitWith(C) == InitObject(C) /\ args = NoArgs /\ par = NoPar

SeqsUpTo(S, n) == UNION {[1..k -> S] : k \in 0..n}

\* Weight-path strings and paths drawn for the normalization runs.
NormStrings ==
    {RepoA \o <<"bf16.gguf">>, RepoB \o <<"bf16.gguf">>, RepoR \o <<"bf16.gguf">>,
     <<"dir", "bf16.gguf">>, <<"org", "", "repo", "bf16.gguf">>}
NormEntries ==
    {OtherEntry} \cup {StrEntry(s) : s \in NormStrings}
        \cup {PathEntry(PathOf(s)) : s \in NormStrings}

NormConfigs ==
    {Config(mp, wp, shape, NoEncoding, "model_default", devs, FALSE) :
        mp \in {<<>>, RepoA, RepoR},
        wp \in SeqsUpTo(NormEntries, MaxPaths),
        shape \in {"list", "tuple"},
        devs \in {<<Gpu0>>, <<Cpu0, Gpu1>>}}

\* The paths the weight-path entries of a config name.
GivenPaths(c) ==
    {PathOf(c.weight_path[i].val) :
        i \in {j \in DOMAIN c.weight_path : c.weight_path[j].typ # "other"}}

\* In the normalization runs the filesystem is fixed from the start for the
\* given weight paths, whether resolve() looks at them or not.
InitNorm ==
    /\ InitWith(NormConfigs)
    /\ \E F \in SUBSET GivenPaths(cfg) : env = [EmptyEnv EXCEPT !.files = F]
    /\ known = {<<"fs", <<>>, p>> : p \in GivenPaths(cfg)}
NextNorm == Resolve
SpecNorm == InitNorm /\ [][NextNorm]_vars

\* Configs drawn for the runs of the whole pipeline.
PipeLists ==
    {<<>>,
     <<PathEntry(<<"plain.gguf">>)>>,
     <<PathEntry(<<"bf16.gguf">>)>>,
     <<PathEntry(<<"model.safetensors">>)>>,
     <<PathEntry(<<"model.bin">>)>>,
     <<StrEntry(RepoA \o <<"bf16.gguf">>)>>,
     <<StrEntry(RepoB \o <<"plain.gguf">>)>>,
     <<StrEntry(RepoB \o <<"bf16.gguf">>), OtherEntry>>,
     <<PathEntry(<<"model.safetensors">>), PathEntry(<<"plain.gguf">>)>>}

PipeConfigs ==
    {Config(mp, wp, "list", enc, kv, devs, FALSE) :
        mp \in {<<>>, RepoA},
        wp \in PipeLists,
        enc \in {NoEncoding} \cup Encodings,
        kv \in {"model_default", "naive", "paged"},
        devs \in {<<Cpu0>>, <<Gpu0>>, <<Cpu0, Gpu0>>, <<Gpu1>>}}

Init ==
    /\ InitWith(PipeConfigs)
    /\ env = EmptyEnv
    /\ known = {}
Next == Resolve \/ ResolveEncoding \/ ResolveWithEncoding
Spec == Init /\ [][Next]_vars

\* Configs drawn for the repeated resolutions.
TwiceConfigs ==
    {c \in PipeConfigs :
        /\ c.cache_strategy \in {"model_default", "naive"}
        /\ c.device_specs \in {<<Cpu0>>, <<Gpu0>>}}

InitTwice ==
    /\ InitWith(TwiceConfigs)
    /\ env = EmptyEnv
    /\ known = {}
NextTwice == Resolve \/ ResolveEncoding \/ ResolveWithEncoding \/ Rerun
SpecTwice == InitTwice /\ [][NextTwice]_vars

(***************************************************************************)
(* _resolve_kv_cache_strategy called on its own, on any config and any     *)
(* mapping from encodings to supported strategies.                         *)
(***************************************************************************)
KvConfigs ==
    {Config(RepoA, wp, "list", enc, kv, <<Gpu0>>, FALSE) :
        wp \in {<<>>, <<PathEntry(<<"bf16.gguf">>)>>},
        enc \in {NoEncoding} \cup Encodings,
        kv \in Strategies}

InitKv ==
    /\ InitWith(KvConfigs)
    /\ env = EmptyEnv
    /\ known = {}

ResolveKv ==
    /\ pc = "start"
    /\ \E k \in KvChoices :
        /\ Commit(env, ResolveKvCacheStrategy(Start(cfg), k), "kv_cache_strategy", "done")
        /\ args' = [args EXCEPT !.supported = k]

NextKv == ResolveKv
SpecKv == InitKv /\ [][NextKv]_vars

(***************************************************************************)
(* _validate_final_architecture_model_path_weight_path called on its own,  *)
(* on a config whose weights repository is already built, against every    *)
(* filesystem, cache and registry content for the paths it names.          *)
(***************************************************************************)
ProbePaths == {<<"bf16.gguf">>, <<"q4k.gguf">>}

\* RepoType, and a classification outside it that the else branches provide for
RepoTypes == {"local", "online", "unknown"}

CacheAnswers == {"hit", "absent", "miss"}

ProbeConfigs ==
    {[Config(RepoA, PathEntries(wp), "list", "q4_k", "paged", <<Cpu0>>, FALSE)
         EXCEPT !.repo = [id |-> RepoA, type |-> t]] :
        wp \in SeqsUpTo(ProbePaths, MaxPaths), t \in RepoTypes}

ProbeEnv(F, c, R, S) ==
    [EmptyEnv EXCEPT !.files = F,
                     !.cacheHit = {<<RepoA, p>> : p \in {q \in ProbePaths : c[q] = "hit"}},
                     !.cacheAbsent = {<<RepoA, p>> : p \in {q \in ProbePaths : c[q] = "absent"}},
                     !.remoteFiles = {<<RepoA, p>> : p \in R},
                     !.remoteSized = {<<RepoA, p>> : p \in S}]

InitProbe ==
    /\ InitWith(ProbeConfigs)
    /\ \E F \in SUBSET ProbePaths, c \in [ProbePaths -> CacheAnswers],
          R \in SUBSET ProbePaths, S \in SUBSET ProbePaths :
          env = ProbeEnv(F, c, R, S)
    /\ known = {}

ValidateFinalAlone ==
    /\ pc = "start"
    /\ Commit(env, ValidateFinal(env, Start(cfg)), "final_validation", "done")
    /\ UNCHANGED args

WeightsSizeAlone ==
    /\ pc = "start"
    /\ LET r == WeightsSize(env, Start(cfg))
       IN CommitWith(env, r.m, "weights_size", "done",
                     IF r.m.err = "none" THEN <<r.total>> ELSE <<>>)
    /\ UNCHANGED args

NextProbe == ValidateFinalAlone \/ WeightsSizeAlone
SpecProbe == InitProbe /\ [][NextProbe]_vars

(***************************************************************************)
(* Two config objects of the same model, built by two callers and resolved *)
(* side by side, one stage of one object at a time, in an environment      *)
(* that is fixed from the start.  A config holds a reference to its        *)
(* KVCacheConfig object; the cache strategy lives in that object.          *)
(***************************************************************************)
RepoAcme == <<"acme", "llama-x">>
AcmeFile == <<"model-00001.safetensors">>

Objs == {1, 2}

\* one KVCacheConfig made once and handed to every construction
KvConfigShared(o) == 1

\* _kv_cache_config: field(default_factory=KVCacheConfig), line 178: every
\* construction makes a KVCacheConfig of its own
KvConfigOf(o) == o

FirstConfigs ==
    {Config(RepoAcme, wp, "list", enc, kv, <<Gpu0>>, FALSE) :
        wp \in {<<>>, <<PathEntry(AcmeFile)>>},
        enc \in {NoEncoding, "bfloat16", "float32"},
        kv \in {"model_default", "continuous"}}
SecondConfigs ==
    {Config(RepoAcme, <<>>, "list", enc, kv, <<Gpu0>>, FALSE) :
        enc \in {NoEncoding, "float32"}, kv \in {"model_default", "continuous"}}

AcmeIndex == [EmptyIndex EXCEPT !["bfloat16"] = <<Files("safetensors", <<AcmeFile>>)>>]

ParEnvs ==
    {[EmptyEnv EXCEPT !.remoteRepos = {RepoAcme},
                      !.remoteFiles = {<<RepoAcme, AcmeFile>>},
                      !.cacheHit = H,
                      !.encForFile = {<<AcmeFile, "bfloat16">>},
                      !.supEnc = s,
                      !.fileIndex = AcmeIndex] :
        H \in SUBSET {<<RepoAcme, AcmeFile>>},
        s \in {<<"bfloat16", "float32">>, <<"float32", "bfloat16">>}}

ParArgs ==
    {[default_encoding |-> d, default_weights_format |-> f,
      supported |-> [x \in Encodings |-> IF x = "bfloat16" THEN <<"paged", "continuous">>
                                         ELSE <<"continuous">>]] :
        d \in DefaultEncodings, f \in DefaultFormats}

\* the stages in the order a caller runs them, lines 187-275, 385-463, 465-481
Stages == 1..7
StageOf(k, e, c, a) ==
    CASE k = 1 -> ResolveOp(e, c)
      [] k = 2 -> ResolveEncodingOp(e, c, a.default_encoding)
      [] k = 3 -> ValidateDeviceCompatibility(Start(c))
      [] k = 4 -> FinalizeEncodingConfig(e, Start(c))
      [] k = 5 -> ResolveWeightPath(e, Start(c), a.default_weights_format)
      [] k = 6 -> ResolveKvCacheStrategy(Start(c), a.supported)
      [] k = 7 -> ValidateFinal(e, Start(c))

\* the two constructions, one after the other; each caller then sets the
\* cache strategy it wants through its config's kv_cache_config
Construct(c1, c2) ==
    LET heap0 == [i \in Objs |-> "model_default"]
        heap1 == [heap0 EXCEPT ![KvConfigOf(1)] = c1.cache_strategy]
        heap2 == [heap1 EXCEPT ![KvConfigOf(2)] = c2.cache_strategy]
    IN [objs |-> <<[cfg |-> c1, kv |-> KvConfigOf(1), n |-> 0, err |-> "none"],
                   [cfg |-> c2, kv |-> KvConfigOf(2), n |-> 0, err |-> "none"]>>,
        heap |-> heap2,
        init |-> <<c1, c2>>]

\* the config of object o as its methods see it: self.kv_cache_config.cache_strategy
\* is read through the reference
ConfigOf(o) == [par.objs[o].cfg EXCEPT !.cache_strategy = par.heap[par.objs[o].kv]]

InitPar ==
    /\ InitObject({Config(RepoAcme, <<>>, "list", NoEncoding, "model_default", <<Gpu0>>, FALSE)})
    /\ env \in ParEnvs
    /\ known = {}
    /\ args \in ParArgs
    /\ \E c1 \in FirstConfigs, c2 \in SecondConfigs : par = Construct(c1, c2)

\* object o runs its next stage
StageStep(o) ==
    /\ par.objs[o].err = "none"
    /\ par.objs[o].n + 1 \in Stages
    /\ LET m == StageOf(par.objs[o].n + 1, env, ConfigOf(o), args)
       IN par' = [par EXCEPT !.objs[o].cfg = m.cfg,
                             !.objs[o].n = @ + 1,
                             !.objs[o].err = m.err,
                             !.heap[par.objs[o].kv] = m.cfg.cache_strategy]
    /\ UNCHANGED <<cfg, env, known, args, pc, err, stage, calls, norm, warns, steps, cfg0,
                   run, pre, ret>>

ParStep == \E o \in Objs : StageStep(o)
NextPar == ParStep
SpecPar == InitPar /\ [][NextPar]_vars

(***************************************************************************)
(* Properties.                                                             *)
(***************************************************************************)
UserFields(c) ==
    <<c.model_path, c.weight_path, c._weights_repo_id, c.quantization_encoding,
      c.cache_strategy, c.trust_remote_code>>

\* A weight path of the starting config that embeds a foreign repository id.
EmbedsRepo(c, i) ==
    /\ c.weight_path[i].typ # "other"
    /\ Len(PathOf(c.weight_path[i].val)) >= 3

\* C1: when a requested device spec is not among the available devices,
\* resolve() fails with ValueError (InvalidConfiguration) and no registry
\* query has been made, whatever model_path and weight_path are.
C1_DeviceCheckBeforeRegistry ==
    (stage # "new" /\ ~DevicesExist(cfg0.device_specs)) =>
        /\ pc = "failed"
        /\ stage = "resolve"
        /\ err = "ValueError"
        /\ RemoteCalls(calls) = {}

C1_Witness ==
    /\ stage = "resolve"
    /\ pc = "failed"
    /\ ~DevicesExist(cfg0.device_specs)
    /\ \E i \in DOMAIN cfg0.weight_path :
          /\ EmbedsRepo(cfg0, i)
          /\ CandidateRepo(PathOf(cfg0.weight_path[i].val)) # cfg0.model_path

\* C2: whenever resolve() returns without error, model_path is non-empty.
C2_ModelPathNonEmpty ==
    (pc = "resolved" /\ stage = "resolve") => cfg.model_path # <<>>

\* C3: whenever validate_and_resolve_quantization_encoding_weight_path returns
\* without error, quantization_encoding is set, so the assertion at the start
\* of the next stage never fails.
C3_EncodingSetAfterStage ==
    /\ (pc = "encoded" => cfg.quantization_encoding # NoEncoding)
    /\ (stage = "with_encoding" => err # "AssertionError")

\* C4: whenever validate_and_resolve_with_set_quantization_encoding returns
\* without error, weight_path is non-empty and every entry is a local file,
\* or is in the local download cache, or exists in the remote repository.
Locatable(p) ==
    \/ p \in env.files
    \/ <<cfg.repo.id, p>> \in env.cacheHit
    \/ <<cfg.repo.id, p>> \in env.remoteFiles

C4_WeightsLocatable ==
    pc = "done" =>
        /\ cfg.weight_path # <<>>
        /\ \A i \in DOMAIN cfg.weight_path :
              cfg.weight_path[i].typ = "Path" /\ Locatable(cfg.weight_path[i].val)

C4_Witness ==
    /\ pc = "done"
    /\ cfg0.weight_path = <<>>
    /\ Len(cfg.weight_path) = 2
    /\ cfg.weight_path[1].val \in env.files
    /\ <<cfg.repo.id, cfg.weight_path[2].val>> \in env.remoteFiles

\* C5: once _resolve_kv_cache_strategy has run, if the caller's mapping gives
\* the finalized encoding a non-empty list of strategies, the cache strategy
\* is a member of that list, whatever it was before.
C5_StrategySupported ==
    (InList("kv_cache_strategy", steps) /\ cfg.quantization_encoding # NoEncoding) =>
        (args.supported[cfg.quantization_encoding] # <<>> =>
            InList(cfg.cache_strategy, args.supported[cfg.quantization_encoding]))

C5_Witness ==
    /\ InList("kv_cache_strategy", steps)
    /\ cfg0.cache_strategy = "naive"
    /\ cfg.cache_strategy = "paged"
    /\ warns # <<>>

\* C6: when resolve() or a later stage raises, every field of the config has
\* the value it had before the resolution started.
C6_NoPartialApplication ==
    pc = "failed" => UserFields(cfg) = UserFields(cfg0)

\* C7: a second run of the whole resolution on a config on which it already
\* succeeded raises no error and leaves the fields unchanged.
C7_Idempotent ==
    run >= 2 =>
        /\ pc # "failed"
        /\ cfg.model_path = cfg0.model_path
        /\ cfg.weight_path = cfg0.weight_path
        /\ cfg._weights_repo_id = cfg0._weights_repo_id
        /\ cfg.quantization_encoding = cfg0.quantization_encoding
        /\ cfg.cache_strategy = cfg0.cache_strategy

\* C8: when every weight-path entry, string or Path, exists as a local file,
\* normalization keeps each entry, makes no registry lookup, leaves
\* _weights_repo_id unset and raises no error.
AllGivenLocal ==
    /\ cfg0.weight_path # <<>>
    /\ \A i \in DOMAIN cfg0.weight_path :
          /\ cfg0.weight_path[i].typ # "other"
          /\ PathOf(cfg0.weight_path[i].val) \in env.files

C8_LocalFilesUntouched ==
    (stage = "resolve" /\ AllGivenLocal) =>
        /\ pc = "resolved"
        /\ cfg.weight_path =
              [i \in DOMAIN cfg0.weight_path |-> PathEntry(PathOf(cfg0.weight_path[i].val))]
        /\ cfg._weights_repo_id = cfg0._weights_repo_id
        /\ RemoteCalls(calls) = {}

\* C9: an entry of at least 3 pieces that is not an existing local file and
\* whose first two pieces are the non-empty model_path is replaced by the
\* remaining pieces; it does not change _weights_repo_id and no registry
\* lookup is made for it.
OwnRepoEntry(i) ==
    /\ EmbedsRepo(cfg0, i)
    /\ PathOf(cfg0.weight_path[i].val) \notin env.files
    /\ cfg0.model_path # <<>>
    /\ CandidateRepo(PathOf(cfg0.weight_path[i].val)) = cfg0.model_path

C9_OwnRepoPrefixStripped ==
    (stage = "resolve" /\ pc = "resolved") =>
        /\ \A i \in DOMAIN cfg0.weight_path :
              OwnRepoEntry(i) =>
                /\ cfg.weight_path[i] = PathEntry(FileNameOf(PathOf(cfg0.weight_path[i].val)))
                /\ norm[i].after = norm[i].before
                /\ ~norm[i].checked
                /\ \A k \in DOMAIN calls :
                      calls[k].op = "file_exists" => calls[k].repo # cfg0.model_path
        /\ (\A i \in DOMAIN cfg0.weight_path : OwnRepoEntry(i)) =>
              cfg._weights_repo_id = cfg0._weights_repo_id

C9_Witness ==
    /\ stage = "resolve"
    /\ pc = "resolved"
    /\ Len(cfg0.weight_path) = 2
    /\ OwnRepoEntry(1)
    /\ cfg0.weight_path[1].typ = "Path"
    /\ cfg.weight_path[1].val = <<"bf16.gguf">>
    /\ cfg._weights_repo_id = RepoB

\* C10: for an entry of at least 3 pieces whose candidate repository differs
\* from model_path, the registry is asked whether the candidate holds the
\* remaining file name: on true the entry becomes the remainder and
\* _weights_repo_id the candidate, on false the entry is kept and
\* _weights_repo_id is not modified.
ForeignRecord(r) ==
    /\ r.inp.typ # "other"
    /\ Len(PathOf(r.inp.val)) >= 3
    /\ CandidateRepo(PathOf(r.inp.val)) # cfg0.model_path
    /\ ~r.local

C10_ForeignRepoLookup ==
    stage = "resolve" =>
        /\ \A k \in DOMAIN norm :
              ForeignRecord(norm[k]) =>
                LET path == PathOf(norm[k].inp.val) IN
                /\ norm[k].checked
                /\ norm[k].ans = (<<CandidateRepo(path), FileNameOf(path)>> \in env.remoteFiles)
                /\ norm[k].ans =>
                      norm[k].out = FileNameOf(path) /\ norm[k].after = CandidateRepo(path)
                /\ ~norm[k].ans =>
                      norm[k].out = path /\ norm[k].after = norm[k].before
        /\ \A k \in DOMAIN norm :
              norm[k].before = IF k = 1 THEN cfg0._weights_repo_id ELSE norm[k - 1].after
        /\ pc = "resolved" =>
              /\ cfg.weight_path = [k \in DOMAIN norm |-> PathEntry(norm[k].out)]
              /\ cfg._weights_repo_id =
                    IF norm = <<>> THEN cfg0._weights_repo_id ELSE norm[Len(norm)].after

C10_Witness ==
    /\ stage = "resolve"
    /\ pc = "resolved"
    /\ Len(norm) = 2
    /\ ForeignRecord(norm[1]) /\ norm[1].ans
    /\ ForeignRecord(norm[2]) /\ ~norm[2].ans
    /\ cfg.weight_path[1].val = <<"bf16.gguf">>
    /\ cfg.weight_path[2].val = norm[2].inp.val
    /\ cfg._weights_repo_id = CandidateRepo(PathOf(norm[1].inp.val))

\* C11: a weight path that is not an existing local file and has fewer than 3
\* pieces makes resolve() fail with ValueError when model_path is empty; when
\* model_path is non-empty the entry is kept as it is and is not the cause of
\* any error.
ShortEntry(i) ==
    /\ cfg0.weight_path[i].typ # "other"
    /\ Len(PathOf(cfg0.weight_path[i].val)) < 3
    /\ PathOf(cfg0.weight_path[i].val) \notin env.files

C11_ShortPathNeedsModelPath ==
    stage = "resolve" =>
        \A i \in DOMAIN cfg0.weight_path :
            ShortEntry(i) =>
                IF cfg0.model_path = <<>>
                THEN pc = "failed" /\ err = "ValueError"
                ELSE /\ pc = "resolved" =>
                            cfg.weight_path[i] = PathEntry(PathOf(cfg0.weight_path[i].val))
                     /\ Len(norm) >= i =>
                            /\ norm[i].out = PathOf(cfg0.weight_path[i].val)
                            /\ norm[i].after = norm[i].before
                            /\ ~norm[i].checked
                     /\ pc = "failed" =>
                            \/ ~DevicesExist(cfg0.device_specs)
                            \/ \E j \in DOMAIN cfg0.weight_path :
                                    cfg0.weight_path[j].typ = "other"

C11_Witness ==
    /\ stage = "resolve"
    /\ pc = "failed"
    /\ err = "ValueError"
    /\ cfg0.model_path = <<>>
    /\ DevicesExist(cfg0.device_specs)
    /\ Len(cfg0.weight_path) = 2
    /\ cfg0.weight_path[1].typ = "str"
    /\ cfg._weights_repo_id = RepoB
    /\ cfg0.weight_path[2].typ = "Path"
    /\ ShortEntry(2)

\* C12: with weight paths and an explicit encoding, and a weight format other
\* than pytorch, stage 2 fails with ValueError and keeps the explicit encoding
\* when the encoding detected for the first weight file (from its name when it
\* exists locally, from the repository otherwise) differs from the explicit
\* one; it succeeds when the two agree or none is detected.
GivenBoth ==
    /\ stage = "encoding"
    /\ pre.weight_path # <<>>
    /\ pre.quantization_encoding # NoEncoding
    /\ WeightsFormatOf(pre.weight_path) # "pytorch"

Detected ==
    IF Exists(env, pre.weight_path[1].val)
    THEN ParseFromFileName(pre.weight_path[1].val)
    ELSE EncodingForFile(env, pre.weight_path[1].val)

C12_InconsistentEncodingFails ==
    GivenBoth =>
        /\ cfg.quantization_encoding = pre.quantization_encoding
        /\ IF Detected # NoEncoding /\ Detected # pre.quantization_encoding
           THEN pc = "failed" /\ err = "ValueError"
           ELSE pc = "encoded" /\ err = "none"

C12_Witness ==
    /\ GivenBoth
    /\ ~Exists(env, pre.weight_path[1].val)
    /\ pre.quantization_encoding = "float32"
    /\ Detected = "bfloat16"
    /\ pc = "failed"

\* C13: with no weight paths and no explicit encoding, a repository that
\* supports exactly one encoding gives that encoding, whatever the devices
\* and the caller's default encoding are.
NothingGiven ==
    /\ stage = "encoding"
    /\ pre.weight_path = <<>>
    /\ pre.quantization_encoding = NoEncoding

C13_SingleEncodingAdopted ==
    (NothingGiven /\ Len(env.supEnc) = 1) =>
        /\ pc = "encoded"
        /\ cfg.quantization_encoding = env.supEnc[1]

C13_Witness ==
    /\ NothingGiven
    /\ env.supEnc = <<"q4_k">>
    /\ pre.device_specs = <<Gpu0>>
    /\ args.default_encoding = "float32"
    /\ cfg.quantization_encoding = "q4_k"

\* C14: with no weight paths, no explicit encoding and a supported-encodings
\* list that does not have exactly one element, the encoding becomes bfloat16
\* when any requested device is not a CPU and bfloat16 is supported, and the
\* caller's default encoding otherwise, whatever the order of device_specs.
AnyAccelerator(specs) == \E i \in DOMAIN specs : specs[i].device_type # "cpu"

C14_AcceleratorHeuristicAnyDevice ==
    (NothingGiven /\ Len(env.supEnc) # 1) =>
        /\ pc = "encoded"
        /\ cfg.quantization_encoding =
              IF AnyAccelerator(pre.device_specs) /\ InList("bfloat16", env.supEnc)
              THEN "bfloat16"
              ELSE args.default_encoding

\* C15: stage 3 tests the encoding against every device spec: when at least
\* one of them does not support it the stage fails with ValueError before the
\* file index is queried, the cache strategy is changed or a weight file is
\* looked for; when all of them support it the stage goes on.
StageThreeRan ==
    /\ stage = "with_encoding"
    /\ pre.quantization_encoding # NoEncoding

Incompatible(c) ==
    \E i \in DOMAIN c.device_specs :
        ~SupportedOn(c.quantization_encoding, c.device_specs[i])

C15_EveryDeviceChecked ==
    StageThreeRan =>
        IF Incompatible(pre)
        THEN /\ pc = "failed"
             /\ err = "ValueError"
             /\ steps = <<"device_compatibility">>
             /\ cfg = pre
             /\ warns = <<>>
             /\ \A k \in DOMAIN calls : calls[k].op \notin {"files_for_encoding", "cache"}
        ELSE /\ Len(steps) >= 2
             /\ steps[1] = "device_compatibility"

C15_Witness ==
    /\ StageThreeRan
    /\ pre.device_specs = <<Cpu0, Gpu0>>
    /\ pre.quantization_encoding = "q4_k"
    /\ pre.weight_path = <<>>
    /\ pre.cache_strategy = "naive"
    /\ pc = "failed"
    /\ steps = <<"device_compatibility">>

\* C16: when weight_path is already non-empty as _resolve_weight_path runs,
\* the step leaves weight_path as it is, does not query the repository's file
\* index and raises nothing, so the next step is entered.
WeightPathStepRan == stage = "with_encoding" /\ InList("weight_path", steps)

C16_GivenWeightPathsKept ==
    (WeightPathStepRan /\ pre.weight_path # <<>>) =>
        /\ cfg.weight_path = pre.weight_path
        /\ \A k \in DOMAIN calls : calls[k].op # "files_for_encoding"
        /\ InList("kv_cache_strategy", steps)

C16_Witness ==
    /\ WeightPathStepRan
    /\ Len(pre.weight_path) = 2
    /\ cfg.weight_path = pre.weight_path
    /\ pc = "done"

\* C17: when weight_path is empty as _resolve_weight_path runs, it becomes the
\* file set the index gives for the caller's default weights format whenever
\* that set is non-empty; the file set of another format is taken only when
\* the default format's set is absent or empty.
DefaultFillRan == WeightPathStepRan /\ pre.weight_path = <<>>

IndexNow ==
    FilesForEncoding(env, pre.quantization_encoding,
                     AlternateEncoding(pre.quantization_encoding))

DefaultFormatFiles == FilesOfFormat(IndexNow, args.default_weights_format)

C17_DefaultFormatPreferred ==
    DefaultFillRan =>
        /\ DefaultFormatFiles # <<>> => cfg.weight_path = PathEntries(DefaultFormatFiles)
        /\ cfg.weight_path # PathEntries(DefaultFormatFiles) =>
              /\ DefaultFormatFiles = <<>>
              /\ \E i \in DOMAIN IndexNow :
                    /\ IndexNow[i].fmt # args.default_weights_format
                    /\ cfg.weight_path = PathEntries(IndexNow[i].files)

C17_Witness ==
    /\ DefaultFillRan
    /\ pc = "done"
    /\ Len(IndexNow) = 2
    /\ IndexNow[1].files # <<>>
    /\ args.default_weights_format = IndexNow[2].fmt
    /\ cfg.weight_path = PathEntries(IndexNow[2].files)
    /\ Len(cfg.weight_path) = 2

\* C18: when weight_path is empty as _resolve_weight_path runs, the step fails
\* with ValueError if and only if the index for the encoding (with the
\* alternate fallback) holds no file in any format; when some format has a
\* non-empty file set the step succeeds with a non-empty weight_path.
WeightPathStepFailed ==
    /\ pc = "failed"
    /\ err = "ValueError"
    /\ steps[Len(steps)] = "weight_path"

C18_FailsIffNoFiles ==
    DefaultFillRan =>
        IF HasFiles(IndexNow)
        THEN ~WeightPathStepFailed /\ cfg.weight_path # <<>>
        ELSE WeightPathStepFailed /\ cfg.weight_path = <<>>

\* C19: when the cache strategy is MODEL_DEFAULT and the caller's mapping
\* gives the encoding a non-empty list, _resolve_kv_cache_strategy sets the
\* strategy to the first entry of that list.
KvStepRan == stage = "with_encoding" /\ InList("kv_cache_strategy", steps)

SupportedStrategies == args.supported[pre.quantization_encoding]

C19_ModelDefaultTakesFirst ==
    (KvStepRan /\ pre.cache_strategy = "model_default" /\ SupportedStrategies # <<>>) =>
        cfg.cache_strategy = SupportedStrategies[1]

C19_Witness ==
    /\ KvStepRan
    /\ pre.cache_strategy = "model_default"
    /\ SupportedStrategies = <<"paged", "continuous">>
    /\ cfg.cache_strategy = "paged"

\* C20: a strategy set explicitly that is not in the encoding's non-empty
\* list is replaced by the first entry of the list with a warning, and
\* _resolve_kv_cache_strategy raises nothing for any strategy and mapping:
\* the step after it is always entered.
Unsupported ==
    /\ pre.cache_strategy # "model_default"
    /\ SupportedStrategies # <<>>
    /\ ~InList(pre.cache_strategy, SupportedStrategies)

C20_UnsupportedDowngradedWithWarning ==
    KvStepRan =>
        /\ InList("final_validation", steps)
        /\ Unsupported =>
              /\ cfg.cache_strategy = SupportedStrategies[1]
              /\ InList("cache_strategy not supported", warns)

C20_Witness ==
    /\ KvStepRan
    /\ pre.cache_strategy = "naive"
    /\ SupportedStrategies = <<"continuous">>
    /\ cfg.cache_strategy = "continuous"
    /\ InList("cache_strategy not supported", warns)
    /\ pc = "done"

\* C21: _resolve_kv_cache_strategy leaves the cache strategy unchanged when it
\* is already in the encoding's supported list and when that list is empty
\* (MODEL_DEFAULT may then remain), and it changes no field other than the
\* cache strategy.
KvAlone == stage = "kv_cache_strategy"

KvList == IF pre.quantization_encoding = NoEncoding THEN <<>>
          ELSE args.supported[pre.quantization_encoding]

C21_KvStrategyFrame ==
    KvAlone =>
        /\ [cfg EXCEPT !.cache_strategy = pre.cache_strategy] = pre
        /\ (KvList = <<>> \/ InList(pre.cache_strategy, KvList)) =>
              cfg.cache_strategy = pre.cache_strategy

C21_Witness ==
    /\ KvAlone
    /\ pc = "done"
    /\ pre.cache_strategy = "continuous"
    /\ KvList = <<"paged", "continuous">>
    /\ cfg.cache_strategy = "continuous"

\* C22: the final validation looks at the paths in list order and stops at the
\* first one the local probe does not find and the repository does not
\* confirm: FileNotFoundError for a local repository, ValueError for an online
\* repository whose registry does not hold the path, RuntimeError for any
\* other repository type; an online path the registry holds is accepted.
FinalAlone == stage = "final_validation" /\ pre.weight_path # <<>>

ProbeFinds(p) ==
    \/ p \in env.files
    \/ /\ pre.repo.type = "online"
       /\ <<pre.repo.id, p>> \in env.cacheHit
       /\ <<pre.repo.id, p>> \notin env.cacheAbsent

CacheSaysAbsent(p) ==
    /\ p \notin env.files
    /\ pre.repo.type = "online"
    /\ <<pre.repo.id, p>> \in env.cacheAbsent

\* what the claim says the validation of one path ends in
Verdict(p) ==
    IF ProbeFinds(p) THEN "none"
    ELSE IF CacheSaysAbsent(p) THEN "FileNotFoundError"
    ELSE IF pre.repo.type = "local" THEN "FileNotFoundError"
    ELSE IF pre.repo.type = "online"
    THEN IF <<pre.repo.id, p>> \in env.remoteFiles THEN "none" ELSE "ValueError"
    ELSE "RuntimeError"

FatalAt(i) ==
    /\ Verdict(pre.weight_path[i].val) # "none"
    /\ \A j \in 1..(i - 1) : Verdict(pre.weight_path[j].val) = "none"

C22_FirstUnresolvablePathFatal ==
    FinalAlone =>
        /\ (\A i \in DOMAIN pre.weight_path : Verdict(pre.weight_path[i].val) = "none") =>
              pc = "done"
        /\ \A i \in DOMAIN pre.weight_path :
              FatalAt(i) =>
                /\ pc = "failed"
                /\ err = Verdict(pre.weight_path[i].val)
                /\ \A k \in DOMAIN calls :
                      calls[k].path \in {pre.weight_path[j].val : j \in 1..i}

C22_Witness ==
    /\ FinalAlone
    /\ pre.repo.type = "online"
    /\ pre.weight_path = PathEntries(<<<<"bf16.gguf">>, <<"q4k.gguf">>>>)
    /\ ~ProbeFinds(<<"bf16.gguf">>)
    /\ <<RepoA, <<"bf16.gguf">>>> \in env.remoteFiles
    /\ <<RepoA, <<"q4k.gguf">>>> \notin env.cacheAbsent
    /\ err = "ValueError"
    /\ \E k \in DOMAIN calls : calls[k].op = "file_exists" /\ calls[k].path = <<"q4k.gguf">>

ProbeUser == stage \in {"final_validation", "weights_size"} /\ pre.weight_path # <<>>

AbsentAnswerAt(k) == calls[k].op = "cache" /\ calls[k].ans = "absent"

CallsFor(p) == SelectSeq(calls, LAMBDA c : c.path = p)

DirectAnswer(p) == Call("is_file", <<>>, p, BoolStr(p \in env.files))

CacheAnswer(p) ==
    Call("cache", pre.repo.id, p,
         IF <<pre.repo.id, p>> \in env.cacheAbsent THEN "absent"
         ELSE IF <<pre.repo.id, p>> \in env.cacheHit THEN "hit" ELSE "miss")

IsRemoteCall(c) == c.op \in RemoteOps

\* the calls made for one path, a repeated path counted once
FirstVisit(p) ==
    LET cs == CallsFor(p)
        later == {k \in 2..Len(cs) : cs[k].op = "is_file"}
    IN IF later = {} THEN cs
       ELSE SubSeq(cs, 1, (CHOOSE k \in later : \A j \in later : k <= j) - 1)

\* C24: the probe asks in a fixed order.  For every path a caller of the
\* probe reached, the first question is whether the path is a file; if it
\* is, nothing else is asked about it (no cache lookup, no remote call),
\* whatever the repository type.  The download cache is asked only for an
\* online repository, and only second.  A plain miss raises nothing: the
\* caller goes on to its remote call.  A remote call about a path comes
\* only third, after a negative direct answer and a cache miss.
C24_ProbeOrder ==
    ProbeUser =>
        /\ \A k \in DOMAIN calls : calls[k].op = "cache" => pre.repo.type = "online"
        /\ \A i \in DOMAIN pre.weight_path :
              LET p == pre.weight_path[i].val
                  cs == FirstVisit(p)
              IN cs # <<>> =>
                  /\ cs[1] = DirectAnswer(p)
                  /\ p \in env.files => Len(cs) = 1
                  /\ Len(cs) >= 2 /\ pre.repo.type = "online" => cs[2] = CacheAnswer(p)
                  /\ \A k \in DOMAIN cs :
                        IsRemoteCall(cs[k]) =>
                            /\ k = 3
                            /\ cs[1].ans = "false"
                            /\ cs[2].op = "cache" /\ cs[2].ans = "miss"
                  /\ (pre.repo.type = "online" /\ p \notin env.files
                        /\ CacheAnswer(p).ans = "miss") =>
                        Len(cs) = 3 /\ IsRemoteCall(cs[3])

C24_Witness ==
    /\ ProbeUser
    /\ pre.repo.type = "online"
    /\ pre.weight_path = PathEntries(<<<<"bf16.gguf">>, <<"q4k.gguf">>>>)
    /\ <<"bf16.gguf">> \in env.files
    /\ <<"q4k.gguf">> \notin env.files
    /\ CacheAnswer(<<"q4k.gguf">>).ans = "miss"
    /\ Len(calls) = 4
    /\ IsRemoteCall(calls[4])
    /\ pc = "done"

StageOrder ==
    <<"device_compatibility", "finalize_encoding", "weight_path", "kv_cache_strategy",
      "final_validation">>

IsPrefix(s, t) == Len(s) <= Len(t) /\ s = SubSeq(t, 1, Len(s))

\* C25: validate_and_resolve_with_set_quantization_encoding enters its
\* steps in the order device compatibility, encoding finalization, weight
\* path, cache strategy, final validation; a run that returns entered all
\* five, a run that raised entered none after the one that raised; and the
\* final validation is only entered with a non-empty weight_path, so that
\* its assertion never fails there.
C25_StagesInOrder ==
    stage = "with_encoding" =>
        /\ steps # <<>>
        /\ IsPrefix(steps, StageOrder)
        /\ pc = "done" <=> err = "none"
        /\ pc = "done" => steps = StageOrder
        /\ Len(steps) < Len(StageOrder) => pc = "failed"
        /\ InList("final_validation", steps) =>
              /\ cfg.weight_path # <<>>
              /\ err # "AssertionError"

C25_Witness ==
    /\ stage = "with_encoding"
    /\ pre.weight_path = <<>>
    /\ pc = "failed"
    /\ err = "ValueError"
    /\ steps = SubSeq(StageOrder, 1, 3)

\* What a config and its error are after the first n stages when it is the
\* only object there is.
RECURSIVE AloneFrom(_, _, _)
AloneFrom(c, k, n) ==
    IF k > n THEN [cfg |-> c, err |-> "none"]
    ELSE LET m == StageOf(k, env, c, args)
         IN IF m.err # "none" THEN [cfg |-> m.cfg, err |-> m.err]
            ELSE AloneFrom(m.cfg, k + 1, n)

Alone(o) == AloneFrom(par.init[o], 1, par.objs[o].n)

\* C26: two config objects resolved side by side share no mutable state.
\* Whatever the order in which their stages are run, after every stage each
\* object has exactly the fields and the error it has after the same number
\* of stages when resolved alone; each holds a KVCacheConfig of its own and
\* a repository of its own.
C26_ResolutionsIndependent ==
    par # NoPar =>
        /\ par.objs[1].kv # par.objs[2].kv
        /\ \A o \in Objs :
              /\ ConfigOf(o) = Alone(o).cfg
              /\ par.objs[o].err = Alone(o).err

C26_Witness ==
    /\ par # NoPar
    /\ par.init[1].cache_strategy = "model_default"
    /\ par.init[2].cache_strategy = "model_default"
    /\ par.objs[1].n = 7 /\ par.objs[1].err = "none"
    /\ par.objs[2].n = 7 /\ par.objs[2].err = "none"
    /\ ConfigOf(1).quantization_encoding = "bfloat16"
    /\ ConfigOf(2).quantization_encoding = "float32"
    /\ ConfigOf(1).cache_strategy = "paged"
    /\ ConfigOf(2).cache_strategy = "continuous"

\* the scenario: model id acme/llama-x known to the registry, nothing else
\* given, one GPU, the registry supporting bfloat16 and float32, indexing
\* model-00001.safetensors under bfloat16 and confirming that the file exists
AcmeScenario(o) ==
    /\ par # NoPar
    /\ par.init[o].model_path = RepoAcme
    /\ par.init[o].weight_path = <<>>
    /\ par.init[o].quantization_encoding = NoEncoding
    /\ par.init[o].device_specs = <<Gpu0>>
    /\ RepoAcme \in env.remoteRepos
    /\ {env.supEnc[i] : i \in DOMAIN env.supEnc} = {"bfloat16", "float32"}
    /\ env.fileIndex["bfloat16"] = <<Files("safetensors", <<AcmeFile>>)>>
    /\ <<RepoAcme, AcmeFile>> \in env.remoteFiles
    /\ <<RepoAcme, AcmeFile>> \notin env.cacheAbsent

\* C27: in the acme/llama-x scenario no stage raises, whatever defaults the
\* caller passes, and after the last stage quantization_encoding is
\* bfloat16 and weight_path is [model-00001.safetensors].
C27_AcmeEndToEnd ==
    \A o \in DOMAIN par.objs :
        AcmeScenario(o) =>
            /\ par.objs[o].err = "none"
            /\ par.objs[o].n >= 2 => ConfigOf(o).quantization_encoding = "bfloat16"
            /\ par.objs[o].n >= 5 => ConfigOf(o).weight_path = PathEntries(<<AcmeFile>>)
            /\ ConfigOf(o).model_path = RepoAcme

C27_Witness ==
    /\ AcmeScenario(1)
    /\ args.default_encoding = "q4_k"
    /\ args.default_weights_format = "gguf"
    /\ env.cacheHit = {}
    /\ par.objs[1].n = 7
    /\ par.objs[1].err = "none"
    /\ ConfigOf(1).quantization_encoding = "bfloat16"
    /\ ConfigOf(1).weight_path = PathEntries(<<AcmeFile>>)

PytorchGiven ==
    /\ stage = "encoding"
    /\ WeightsFormatOf(pre.weight_path) = "pytorch"

\* the stage run on the same config without its weight paths
AsIfNoPath ==
    ResolveEncodingOp(env, [pre EXCEPT !.weight_path = <<>>], args.default_encoding)

\* C28: when the weight paths are in pytorch format, stage 2 reads the
\* encoding of no weight file: it neither tests whether the file exists (the
\* step before parsing its name) nor asks the repository for the file's
\* encoding.  An explicit encoding is accepted as it is and the stage
\* returns; an absent one becomes the encoding, or the failure, that the
\* same config without weight paths gets.  The weight paths stay.
C28_PytorchExemption ==
    PytorchGiven =>
        /\ \A k \in DOMAIN calls :
              /\ calls[k].op # "encoding_for_file"
              /\ calls[k].op = "exists" =>
                    calls[k].path \notin {pre.weight_path[i].val : i \in DOMAIN pre.weight_path}
        /\ cfg.weight_path = pre.weight_path
        /\ pre.quantization_encoding # NoEncoding =>
              /\ pc = "encoded"
              /\ cfg = pre
        /\ pre.quantization_encoding = NoEncoding =>
              /\ err = AsIfNoPath.err
              /\ cfg.quantization_encoding = AsIfNoPath.cfg.quantization_encoding

C28_Witness ==
    /\ PytorchGiven
    /\ pre.quantization_encoding = NoEncoding
    /\ pre.device_specs = <<Gpu0>>
    /\ env.supEnc = <<"float32", "bfloat16">>
    /\ cfg.quantization_encoding = "bfloat16"
    /\ pc = "encoded"

\* C29: an encoding that is set when stage 2 starts is the encoding the
\* config has when stage 2 returns, in each of its branches (stage 2 may
\* also raise); and stage 3 ends, returning or raising, with the encoding
\* it started with.
C29_ExplicitEncodingWins ==
    /\ (stage = "encoding" /\ pre.quantization_encoding # NoEncoding) =>
          \/ pc = "failed"
          \/ pc = "encoded" /\ cfg.quantization_encoding = pre.quantization_encoding
    /\ stage = "with_encoding" => cfg.quantization_encoding = pre.quantization_encoding

C29_Witness ==
    /\ stage = "with_encoding"
    /\ cfg0.quantization_encoding = "float32"
    /\ cfg0.weight_path = <<>>
    /\ cfg.weight_path # <<>>
    /\ pc = "done"
    /\ cfg.quantization_encoding = "float32"

ResolveRan == stage = "resolve"

\* C30: when resolve() returns with a non-empty weight_path and a recorded
\* _weights_repo_id for a config whose model_path was empty, model_path is
\* that repository id; and a model_path that was not empty when resolve()
\* was called is the same when resolve() ends, returning or raising.
C30_ModelPathDerivedOrKept ==
    ResolveRan =>
        /\ (/\ pc = "resolved"
            /\ pre.model_path = <<>>
            /\ cfg.weight_path # <<>>
            /\ cfg._weights_repo_id # NoRepoId) =>
              cfg.model_path = cfg._weights_repo_id
        /\ pre.model_path # <<>> => cfg.model_path = pre.model_path

C30_Witness ==
    /\ ResolveRan
    /\ pc = "resolved"
    /\ pre.model_path = <<>>
    /\ pre.weight_path = <<StrEntry(RepoB \o <<"bf16.gguf">>)>>
    /\ cfg.weight_path = <<PathEntry(<<"bf16.gguf">>)>>
    /\ cfg.model_path = RepoB

\* the path an entry of the caller's weight_path stands for
GivenPath(entry) == IF entry.typ = "str" THEN PathOf(entry.val) ELSE entry.val

\* normalization took a repository id off the front of the entry
Stripped(r) ==
    /\ r.inp.typ \in {"str", "Path"}
    /\ Len(GivenPath(r.inp)) >= 3
    /\ r.out = PathOf(FileNameOf(GivenPath(r.inp)))

GivenRepo(r) == CandidateRepo(GivenPath(r.inp))

\* C31: after resolve() returned, every weight path that lost a repository
\* id prefix was given with the repository that is queried from then on
\* (_weights_repo_id if set, model_path otherwise); no list that names two
\* repositories ends with a stripped file name attached to the other one.
C31_StrippedPathsShareQueriedRepo ==
    (stage = "resolve" /\ pc = "resolved") =>
        \A k \in DOMAIN norm : Stripped(norm[k]) => GivenRepo(norm[k]) = RepoIdOf(cfg)

\* C32: whenever resolve() returns and the model_path it leaves names
\* replit (in any letter case), trust_remote_code is true, also when
\* model_path was empty at the call and was taken from the repository id a
\* weight path was given with.
C32_ReplitTrusted ==
    (stage = "resolve" /\ pc = "resolved" /\ IsReplit(cfg.model_path)) =>
        cfg.trust_remote_code

AskedRegistryForRepo == \E k \in DOMAIN calls : calls[k].op = "repo_exists"

ModelPathValid ==
    /\ pre.model_path # <<>>
    /\ Exists(env, pre.model_path) \/ pre.model_path \in env.remoteRepos

\* C33: called without weight paths, resolve() returns only for a non-empty
\* model_path that is an existing local path or a repository the registry
\* confirms; for an empty model_path, or one that is neither, it raises
\* ValueError; and it asks the registry whether the repository exists only
\* after finding that model_path does not exist locally.  Called with at
\* least one weight path, it never asks whether a repository exists.
C33_ModelPathChecked ==
    ResolveRan =>
        /\ pre.weight_path = <<>> =>
              /\ pc = "resolved" => ModelPathValid
              /\ ~ModelPathValid => pc = "failed" /\ err = "ValueError"
              /\ AskedRegistryForRepo => ~Exists(env, pre.model_path)
              /\ \A k \in DOMAIN calls :
                    calls[k].op = "repo_exists" =>
                        /\ calls[k].repo = pre.model_path
                        /\ k > 1
                        /\ calls[k - 1] = Call("exists", <<>>, pre.model_path, "false")
        /\ pre.weight_path # <<>> => ~AskedRegistryForRepo

C33_Witness ==
    /\ ResolveRan
    /\ pre.weight_path = <<>>
    /\ pre.model_path = RepoA
    /\ ~Exists(env, RepoA)
    /\ RepoA \in env.remoteRepos
    /\ AskedRegistryForRepo
    /\ pc = "resolved"

SizeAlone == stage = "weights_size"

\* what the claim says one path contributes: a size, or the error it ends in
SizeVerdict(p) ==
    IF p \in env.files THEN [err |-> "none", size |-> DirectSize(p), remote |-> FALSE]
    ELSE IF ProbeFinds(p) THEN [err |-> "none", size |-> CachedSize(p), remote |-> FALSE]
    ELSE IF CacheSaysAbsent(p) \/ pre.repo.type = "local"
    THEN [err |-> "FileNotFoundError", size |-> 0, remote |-> FALSE]
    ELSE IF pre.repo.type = "online"
    THEN IF <<pre.repo.id, p>> \in env.remoteSized
         THEN [err |-> "none", size |-> RemoteSize(p), remote |-> TRUE]
         ELSE [err |-> "ValueError", size |-> 0, remote |-> TRUE]
    ELSE [err |-> "RuntimeError", size |-> 0, remote |-> FALSE]

VerdictAt(i) == SizeVerdict(pre.weight_path[i].val)

RECURSIVE SumTo(_)
SumTo(n) == IF n = 0 THEN 0 ELSE SumTo(n - 1) + VerdictAt(n).size

\* the paths the registry is to be asked the size of, when the first n are visited
RECURSIVE RemoteTo(_)
RemoteTo(n) ==
    IF n = 0 THEN <<>>
    ELSE RemoteTo(n - 1) \o (IF VerdictAt(n).remote THEN <<pre.weight_path[n].val>> ELSE <<>>)

SizeQueries == SelectSeq(calls, LAMBDA c : c.op = "size_of")
SizeQueryPaths == [k \in DOMAIN SizeQueries |-> SizeQueries[k].path]

SizeFatalAt(i) ==
    /\ VerdictAt(i).err # "none"
    /\ \A j \in 1..(i - 1) : VerdictAt(j).err = "none"

\* C34: weights_size() returns the sum of one size per weight path: the
\* size of the local file when the probe finds the path (directly or in the
\* cache), the size the registry reports otherwise, and the registry is
\* asked for a size only for the paths of an online repository that the
\* probe did not find.  It raises FileNotFoundError at a path a local
\* repository does not hold, ValueError when the registry has no size,
\* RuntimeError for any other repository type; and the config is the same
\* after the call as before.
C34_WeightsSizeSum ==
    SizeAlone =>
        /\ cfg = pre
        /\ (\A i \in DOMAIN pre.weight_path : VerdictAt(i).err = "none") =>
              /\ pc = "done"
              /\ ret = <<SumTo(Len(pre.weight_path))>>
              /\ SizeQueryPaths = RemoteTo(Len(pre.weight_path))
        /\ \A i \in DOMAIN pre.weight_path :
              SizeFatalAt(i) =>
                /\ pc = "failed"
                /\ err = VerdictAt(i).err
                /\ ret = <<>>
                /\ SizeQueryPaths = RemoteTo(i)

C34_Witness ==
    /\ SizeAlone
    /\ pre.repo.type = "online"
    /\ pre.weight_path = PathEntries(<<<<"bf16.gguf">>, <<"q4k.gguf">>>>)
    /\ <<"bf16.gguf">> \notin env.files
    /\ <<RepoA, <<"bf16.gguf">>>> \in env.cacheHit
    /\ ~ProbeFinds(<<"q4k.gguf">>)
    /\ <<RepoA, <<"q4k.gguf">>>> \in env.remoteSized
    /\ pc = "done"
    /\ ret = <<CachedSize(<<"bf16.gguf">>) + RemoteSize(<<"q4k.gguf">>)>>
    /\ Len(SizeQueries) = 1

====
